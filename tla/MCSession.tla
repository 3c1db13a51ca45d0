----------------------------- MODULE MCSession -----------------------------
EXTENDS Session

\* The engine first, as in IDENT_CHANNELS; the second channel stands for the
\* transmission and the AWD clutch.
MCChannels == <<"engine", "transmission">>
=============================================================================
