---------------------------- MODULE DFlashEditor ----------------------------
(***************************************************************************)
(* The DFlash tab of mqb-immo-gui: the source of the target's secrets      *)
(* (secrets.rs), the editor of the immobilizer record and the writing of   *)
(* the edited image (state.rs, view_dflash.rs).                            *)
(*                                                                         *)
(* The file dialogs are windows of their own: the user goes on typing and  *)
(* choosing behind one.  The typed fields are one value, an identity or    *)
(* Garbled when some field does not parse.                                 *)
(***************************************************************************)
EXTENDS DFlash

CONSTANTS
  Images,        \* DFlash images on the disk
  Devices,       \* Device IDs that can be typed or read from program flash
  Identities,    \* identities that can be typed
  Plaintexts     \* records that can be pasted as hex

\* What the records hold, decoded; what an image holds; what can be typed.
Contents ==
  [size : Nat, vin : STRING, fields : STRING, st_stat_fct : StStatFct \cup STRING, rest : STRING,
   vin_copy : STRING \cup {None}, dat_stat_crc_ok : BOOLEAN, dat_dat_crc_ok : BOOLEAN]
RecordsOf(contents) ==
  [channel : Nat, generation : Int, framing : Framings,
   device : Devices \cup {None}, inner : BOOLEAN, content : contents]
ImagesOf(contents) == [records : Seq(RecordsOf(contents)), headers : Seq([seq : Nat, valid : BOOLEAN])]
Analyses(contents) ==
  [alignment : Framings \cup {None}, encrypted : BOOLEAN, inner_crc : BOOLEAN,
   content : contents \cup {Garbled}]

ASSUME EditorAssumption ==
  /\ None \notin Devices \cup Contents \cup ImagesOf(Contents) \cup Analyses(Contents)
  /\ None \notin [vin : STRING, fields : STRING, st_stat_fct : StStatFct \cup STRING]
  /\ Garbled \notin Contents
  /\ Images \subseteq ImagesOf(Contents) /\ Plaintexts \subseteq Contents
  /\ Identities \subseteq [vin : STRING, fields : STRING, st_stat_fct : StStatFct]

VARIABLES
  \* the target's KeySource
  kind,          \* "Dump", "Record" or "Manual"
  device_id,     \* the Device ID as typed, None unless it is twelve bytes
  record_hex,    \* the pasted record, None unless it decodes
  manual,        \* the identity entered by hand, None unless every field parses
  dump, keys, survey, secrets,
  \* the DflashState
  selected_channel, edited, inputs, edit_error, confirm_write,
  \* outside
  saving,        \* is the dialog for the name of the file open?
  file,          \* what the last write from this source left, Garbled when it failed
  \* history
  agreed         \* the record for which the box was ticked

source == <<kind, device_id, record_hex, manual, dump, keys, survey, secrets>>
dflash == <<selected_channel, edited, inputs, edit_error, confirm_write>>
vars == <<source, dflash, saving, file, agreed>>

Kinds == {"Dump", "Record", "Manual"}
NoSurvey == [c \in ImmoChannels |-> None]

-----------------------------------------------------------------------------
(***************************************************************************)
(* The source.                                                             *)
(***************************************************************************)
Unresolved == [keys |-> None, survey |-> NoSurvey, secrets |-> None]

resolve_dump(image, device) ==
  IF image = None \/ device = None THEN Unresolved
  ELSE LET resolved(read, first) ==
             [keys |-> device, survey |-> read,
              secrets |-> IF first = None THEN None ELSE Identity(first)]
           derived(read) == resolved(read, first_valid(read))
       IN derived(ImmoChannelSurvey(image, device))

\* A record whose datDat CRC does not hold is refused.
resolve_record(r) ==
  [Unresolved EXCEPT !.secrets = IF r # None /\ r.dat_dat_crc_ok THEN Identity(r) ELSE None]

resolve_manual(m) == [Unresolved EXCEPT !.secrets = m]

Resolved(k, image, device, r, m) ==
  CASE k = "Dump" -> resolve_dump(image, device)
    [] k = "Record" -> resolve_record(r)
    [] k = "Manual" -> resolve_manual(m)

resolve(k, image, device, r, m) ==
  \E now \in {Resolved(k, image, device, r, m)} :
    keys' = now.keys /\ survey' = now.survey /\ secrets' = now.secrets

\* Defect: the editor keeps the record of the image before.
after_source_change_keeps == UNCHANGED <<dflash, file, agreed>>
after_source_change ==
  /\ selected_channel' = None /\ edited' = None /\ inputs' = None
  /\ edit_error' = FALSE /\ confirm_write' = FALSE /\ file' = None /\ agreed' = None

\* Changing the kind invalidates the plan, but leaves the editor as it is.
SourceKindChanged ==
  /\ kind' \in Kinds \ {kind}
  /\ resolve(kind', dump, device_id, record_hex, manual)
  /\ UNCHANGED <<device_id, record_hex, manual, dump, dflash, saving, file, agreed>>

\* load_dump: a file that cannot be read leaves no image.
DumpChosen ==
  /\ dump' \in Images \cup {None}
  /\ resolve(kind, dump', device_id, record_hex, manual)
  /\ after_source_change
  /\ UNCHANGED <<kind, device_id, record_hex, manual, saving>>

\* DeviceIdChanged and PflashChosen; a program-flash dump without an ID in it
\* leaves the typed one.
DeviceIdChanged ==
  /\ device_id' \in Devices \cup {None}
  /\ resolve(kind, dump, device_id', record_hex, manual)
  /\ after_source_change
  /\ UNCHANGED <<kind, record_hex, manual, dump, saving>>

RecordHexChanged ==
  /\ kind = "Record"
  /\ record_hex' \in Plaintexts \cup {None}
  /\ resolve(kind, dump, device_id, record_hex', manual)
  /\ after_source_change
  /\ UNCHANGED <<kind, device_id, manual, dump, saving>>

ManualFieldChanged ==
  /\ kind = "Manual"
  /\ manual' \in Identities \cup {None}
  /\ resolve(kind, dump, device_id, record_hex, manual')
  /\ after_source_change
  /\ UNCHANGED <<kind, device_id, record_hex, dump, saving>>

-----------------------------------------------------------------------------
(***************************************************************************)
(* The editor.                                                             *)
(***************************************************************************)
\* What the view shows: the editor needs an image, keys and a channel.
picker_shown == dump # None /\ keys # None
editor_shown == picker_shown /\ selected_channel # None

\* A stStatFct that is none of the four is shown as adapted.
Shown(r) ==
  [Identity(r) EXCEPT !.st_stat_fct = IF @ \in StStatFct THEN @ ELSE "Adapted"]

load_channel_for_edit(c) ==
  /\ confirm_write' = FALSE /\ agreed' = None
  /\ edited' = survey[c]
  /\ edit_error' = (keys # None /\ survey[c] = None)
  /\ inputs' = IF survey[c] = None THEN inputs ELSE Shown(survey[c])

\* Only channels that decrypted can be picked.
ChannelSelected ==
  /\ picker_shown
  /\ \E c \in valid_channels(survey) :
       /\ c # selected_channel /\ selected_channel' = c
       /\ load_channel_for_edit(c)
  /\ UNCHANGED <<source, saving, file>>

Revert ==
  /\ editor_shown /\ load_channel_for_edit(selected_channel)
  /\ UNCHANGED <<source, selected_channel, saving, file>>

\* Defect: a tick given for the values before stays.
apply_keeps_confirm(typed) ==
  IF survey[selected_channel] = None THEN UNCHANGED <<edited, edit_error, confirm_write>>
  ELSE /\ edit_error' = (typed = Garbled) /\ UNCHANGED confirm_write
       /\ edited' = IF typed = Garbled THEN edited
                    ELSE set_identity(survey[selected_channel], typed)
\* Always from the record as it was read.  An input that does not parse leaves
\* the last record that did, and the tick that was given for it.
apply_dflash_edits(typed) ==
  IF survey[selected_channel] = None THEN UNCHANGED <<edited, edit_error, confirm_write>>
  ELSE IF typed = Garbled
  THEN edit_error' = TRUE /\ UNCHANGED <<edited, confirm_write>>
  ELSE /\ edited' = set_identity(survey[selected_channel], typed)
       /\ edit_error' = FALSE /\ confirm_write' = FALSE

FieldChanged ==
  /\ editor_shown
  /\ inputs' \in Identities \cup {Garbled} /\ apply_dflash_edits(inputs')
  /\ UNCHANGED <<source, selected_channel, saving, file, agreed>>

ConfirmWriteToggled ==
  /\ editor_shown
  /\ confirm_write' = ~confirm_write /\ agreed' = edited
  /\ UNCHANGED <<source, selected_channel, edited, inputs, edit_error, saving, file>>

-----------------------------------------------------------------------------
(***************************************************************************)
(* Saving.                                                                 *)
(***************************************************************************)
can_save ==
  /\ edited # None /\ ~edit_error /\ find_generation(dump) # None /\ confirm_write

SavePressed ==
  /\ editor_shown /\ can_save /\ saving' = TRUE
  /\ UNCHANGED <<source, dflash, file, agreed>>

\* One channel of save_dflash's loop: copies that do not decode are skipped,
\* the first that cannot be written ends it.
Written(image, error, written) == [image |-> image, error |-> error, written |-> written]
WriteCopy(so_far, c) ==
  LET after(result) == Written(result.image, result.error, so_far.written \cup {c})
      over(existing) ==
        CASE so_far.error # None \/ existing = None -> so_far
          [] so_far.error = None /\ existing # None /\ edited.vin = Unprintable ->
               [so_far EXCEPT !.error = "BadVin"]
          [] OTHER -> after(rewrite_channel(so_far.image, c,
                                            encode(set_identity(existing, Identity(edited))), keys))
  IN over(readable(so_far.image, c, keys))

\* Defect: only the copy in the editor is written.
rewrite_selected(image) == WriteCopy(Written(image, None, {}), selected_channel)
rewrite_copies(image) ==
  WriteCopy(WriteCopy(WriteCopy(Written(image, None, {}), 6), 7), 8)

\* The name was chosen.  Neither the tick nor the error is looked at again.
\* Nothing is written unless every readable copy could be; a write that fails
\* leaves the file torn and the editor as it was.
SaveChosen ==
  /\ saving /\ saving' = FALSE
  /\ \E result \in {IF edited = None \/ keys = None \/ dump = None
                    THEN Written(None, "NothingToSave", {})
                    ELSE rewrite_copies(dump)} :
        \/ /\ result.error # None \/ result.written = {}
           /\ UNCHANGED <<file, dump, survey, confirm_write>>
        \/ /\ result.error = None /\ result.written # {}
           /\ file' = Garbled /\ UNCHANGED <<dump, survey, confirm_write>>
        \/ /\ result.error = None /\ result.written # {}
           /\ file' = result.image /\ dump' = result.image
           /\ survey' = ImmoChannelSurvey(result.image, keys)
           /\ confirm_write' = FALSE
  /\ UNCHANGED <<kind, device_id, record_hex, manual, keys, secrets, selected_channel,
                 edited, inputs, edit_error, agreed>>

SaveCancelled ==
  /\ saving /\ saving' = FALSE
  /\ UNCHANGED <<source, dflash, file, agreed>>

-----------------------------------------------------------------------------
Init ==
  /\ kind = "Dump" /\ device_id = None /\ record_hex = None /\ manual = None
  /\ dump = None /\ keys = None /\ survey = NoSurvey /\ secrets = None
  /\ selected_channel = None /\ edited = None /\ inputs = None
  /\ edit_error = FALSE /\ confirm_write = FALSE
  /\ saving = FALSE /\ file = None /\ agreed = None

Next ==
  \/ SourceKindChanged \/ DumpChosen \/ DeviceIdChanged \/ RecordHexChanged
  \/ ManualFieldChanged \/ ChannelSelected \/ Revert \/ FieldChanged
  \/ ConfirmWriteToggled \/ SavePressed \/ SaveChosen \/ SaveCancelled

Spec == Init /\ [][Next]_vars

-----------------------------------------------------------------------------
(***************************************************************************)
(* Properties.                                                             *)
(***************************************************************************)
\* Types; a failed write leaves a file nobody takes for an image.
TypeOK ==
  /\ kind \in Kinds /\ device_id \in Devices \cup {None} /\ keys \in Devices \cup {None}
  /\ selected_channel \in ImmoChannels \cup {None}
  /\ inputs \in {None, Garbled} \/ inputs.st_stat_fct \in StStatFct
  /\ edit_error \in BOOLEAN /\ confirm_write \in BOOLEAN /\ saving \in BOOLEAN
  /\ \A c \in ImmoChannels : survey[c] # None => survey[c].dat_dat_crc_ok

\* No identity outlives the source it came from: secrets exist only while the
\* selected source yields some, keys are those of the Device ID on the screen,
\* and the record in the editor, but for the identity that was typed, is the one
\* that the image on the screen holds in the selected channel (state.rs:673,
\* "anything derived from it is stale").
OwnSource ==
  /\ secrets # None =>
       Resolved(kind, dump, device_id, record_hex, manual).secrets # None
  /\ keys # None => keys = device_id
  /\ edited # None /\ keys # None =>
       survey[selected_channel] # None /\ edited.rest = survey[selected_channel].rest

\* The tick "Write a modified copy of this image" holds for one set of values:
\* whenever the button is enabled, it was given for the very record that would
\* be written (state.rs:798).
ConfirmCovers == editor_shown /\ can_save => agreed = edited

\* The editor is about one image, and the tick about one edit of it (update).
EditorAgrees == OwnSource /\ ConfirmCovers

\* What a successful save writes differs from the image that was loaded in the
\* live records of channels 6, 7 and 8 only, and there in the identity only; all
\* copies that can be read then hold the identity of the editor, the VIN that
\* the boot loader reads included; each CRC checks and the generation counter is
\* the same ("every other channel is left untouched", view_dflash.rs:346).
IsSave == saving /\ ~saving' /\ file' # file /\ file' # Garbled
SavedImage ==
  [][IsSave =>
       LET rewritten(i) == /\ dump.records[i].channel \in valid_channels(survey)
                           /\ \A j \in DOMAIN dump.records :
                                j > i => dump.records[j].channel # dump.records[i].channel
           copy(i) == file'.records[i].content
       IN /\ file' = dump' /\ file'.headers = dump.headers
          /\ DOMAIN file'.records = DOMAIN dump.records
          /\ \A i \in DOMAIN dump.records :
               IF ~rewritten(i) THEN file'.records[i] = dump.records[i]
               ELSE /\ Identity(copy(i)) = Identity(edited)
                    /\ copy(i).vin_copy \in {None, edited.vin}
                    /\ copy(i).rest = dump.records[i].content.rest
                    /\ [file'.records[i] EXCEPT !.content = 0] = [dump.records[i] EXCEPT !.content = 0]
          /\ valid_channels(survey') = valid_channels(survey)
          /\ find_generation(file') = find_generation(dump)]_vars
=============================================================================
