---------------------------- MODULE MCEcuReports ----------------------------
(***************************************************************************)
(* Every identification answer, of ECUs that answer no immobilizer DID;    *)
(* every immobilizer, on an ECU that names itself.                         *)
(***************************************************************************)
EXTENDS EcuReports

ImmoAt(state, idx, list, ignition, auth, more) ==
  [state |-> state, idx_tun |-> idx, allow |-> list, ignition |-> ignition, auth |-> auth,
   idx_lab |-> 0, challenge |-> 1, vin |-> "vinA", key |-> "keyA", marker |-> "S",
   download_lockout |-> "download" \in more, login_lockout |-> "login" \in more,
   last_error |-> "error" \in more, inhibited |-> "inhibited" \in more]

States == {i \in {ImmoAt(s, idx, list, TRUE, 3, {}) :
                    s \in ImmoState, idx \in 0..2, list \in {{0}, {1}, {0, 1}, {1, 2}}} : Consistent(i)}
Signs == {ImmoAt(s, 1, {1}, ignition, auth, more) :
            s \in {"Adapted", "AdaptationMode"}, ignition \in BOOLEAN, auth \in {0, 1, 2, 3},
            more \in {{}, {"download"}, {"login", "error", "inhibited"}}}

Names == Supported \cup {"simos12"}
KindOf(name) ==
  CASE name \in {"simos18", "simos1810", "simos184", "simos12"} -> "SimosEngine"
    [] name \in {"dq250", "dq381"} -> "Transmission"
    [] name = "haldex" -> "HaldexAwd"
\* The boot loader tells the truth or nothing that can be used.
BootLoaders(name) ==
  {None, <<Pad>>, <<Pad, Dot, Registry[name]>>, <<"CBOOT", Dot>>}
  \cup (IF Registry[name] = "" THEN {<<"XYZ">>} ELSE {<<Registry[name], Dot, "1", Pad>>})
Parts == {None, <<"8V0906259H", Pad>>, <<"5G0906259Q">>, <<"8V0906259K">>, <<Pad, Pad>>}
Odx == {None, <<"EV_ECM", "8V0906259H", Pad>>, <<"EV_ECM", "80A906259F", Revision>>,
        <<"EV_TCM">>, <<Revision>>}

BenchOf(name, boot, part, odx, immo) ==
  [module |-> name, kind |-> KindOf(name), immo |-> immo,
   answers |-> [boot_loader_identification |-> boot, spare_part_number |-> part,
                odx_file_identifier |-> odx]]
MCBenches ==
  UNION {{BenchOf(name, boot, part, odx, Absent) :
            boot \in BootLoaders(name), part \in Parts, odx \in Odx} : name \in Names}
  \cup {BenchOf("simos18", <<"SC8", Dot>>, None, None, immo) : immo \in States \cup Signs}

MCDumps == {Secrets("keyA", "vinA", 1, {}), Secrets("keyB", "vinB", 2, {"auth_mute"})}
=============================================================================
