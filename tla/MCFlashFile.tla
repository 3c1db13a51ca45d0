---------------------------- MODULE MCFlashFile ----------------------------
(***************************************************************************)
(* Small blocks of five modules, at least one of each checksum family.     *)
(***************************************************************************)
EXTENDS FlashFile

MCModules == {"simos18", "simos8", "dq250", "dq381", "haldex"}

Overlapping == {"simos16"}

\* Every other value of an area cell points outside its block.
MCAreaTable ==
    [v \in 0..255 |->
        CASE v = 1 -> << <<1, 1>>, <<4, 4>>, <<7, 8>> >>
          [] v = 2 -> << <<7, 8>> >>
          [] v = 3 -> << <<4, 4>> >>
          [] v = 4 -> << <<4, 8>>, <<10, 11>> >>
          [] OTHER -> << <<1, 99>> >>]

\* The range of the other version lies nowhere in a CAL.
MCBoxCodes == 83 :> <<10, 11>> @@ 84 :> <<200, 210>>

Cboot == <<83, 2, 1, 218, 151, 2, 218, 9>>
Asw == <<83, 6, 3, 6, 6>>
\* The one ECM3 sum is kept in the usual place, the other in the alternate.
Cal == <<83, 56, 4, 7, 7, 76, 0, 0, 72, 38, 38>>
OldCal == <<83, 12, 4, 255, 0, 0, 255, 255, 72, 5, 250>>

MCPatch == <<5, 5, 5>>

MCVendor ==
    [simos18 |-> <<Cboot, Asw, Asw, <<83, 8, 3, 8, 8>>, Cal>>,
     simos16 |-> <<Cboot, Asw, Asw, <<83, 8, 3, 8, 8>>, Cal>>,
     simos8  |-> <<Cboot, <<84, 84, 3, 84, 84, 3, 9>>, OldCal>>,
     dq250   |-> 2 :> <<9, 6, 6, 6>> @@ 3 :> <<83, 5, 5, 5, 5, 231>> @@ 4 :> <<84, 1, 2, 3, 98>>,
     dq381   |-> << <<2, 6, 3, 9, 9>>, <<2, 4, 3, 7, 8>>, <<2, 254, 3, 1, 1>> >>,
     haldex  |-> << <<7, 7, 7>>, <<247, 0, 4, 4>>, <<238, 4, 8, 9>>, <<254, 3, 1>> >>]
=============================================================================
