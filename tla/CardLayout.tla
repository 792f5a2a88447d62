----------------------------- MODULE CardLayout -----------------------------
(***************************************************************************)
(* What the wrappers of src/ap and src/mf.rs address on the card: one      *)
(* record per dedicated file (DF).                                         *)
(*                                                                         *)
(*   keys     key references the wrapper's VERIFY and empty VERIFY name    *)
(*   changes  key references whose value the wrapper can replace           *)
(*   files    elementary files it reads after an explicit SELECT           *)
(*   named    keys and objects a single command names in P1-P2, with no    *)
(*            SELECT before it: COMPUTE DIGITAL SIGNATURE, INTERNAL        *)
(*            AUTHENTICATE, GET DATA.  "00" is the application's default   *)
(*            signing key                                                  *)
(*   opens    <<key, guarded>>: a VERIFY of key opens guarded, which is    *)
(*            closed to a caller that presented none of its keys           *)
(*                                                                         *)
(* The identifiers are the four hexadecimal digits of the source.  They    *)
(* collide across applications, which is what makes the current DF matter. *)
(***************************************************************************)

\* src/mf.rs: record files of the master file and its GET DATA objects
MasterFile ==
  [keys |-> {}, changes |-> {},
   files |-> {"001E", "2F10", "2F11"},
   named |-> {"0042", "0045", "0066", "00F0", "00F2", "00F7", "00F8", "7F21"},
   opens |-> {}]

CommonAp ==
  [keys |-> {"001C"}, changes |-> {"001C"},
   files |-> {"0001", "0002"}, named |-> {"0019"}, opens |-> {}]

JukiAp ==
  [keys |-> {"001C"}, changes |-> {"001C"},
   files |-> {"0002"}, named |-> {}, opens |-> {}]

SurfaceAp ==
  [keys |-> {"0011", "0012", "0013"}, changes |-> {},
   files |-> {"0001", "0002", "0003", "0004", "0005", "0006"},
   named |-> {"00"},
   opens |-> {<<"0011", "0001">>}
             \cup ({"0012", "0013"} \X {"0002", "0006"})
             \cup {<<"0013", "0005">>}]

\* PIN 0011, the reference 0012 that is issued blocked, codes A 0014, B 0015
TextAp ==
  [keys |-> {"0011", "0012", "0014", "0015"}, changes |-> {"0011"},
   files |-> {"0001", "0002", "0003", "0004", "0005", "0006", "0007", "0008"},
   named |-> {"00"},
   opens |-> ({"0011", "0014"} \X {"0001"})
             \cup ({"0011", "0015"} \X {"0002"})
             \cup ({"0011", "0014", "0015"} \X {"0003", "0006", "0007"})]

\* PINs 0018 and 001B guard the private keys 0017 and 001A
JpkiAp ==
  [keys |-> {"0018", "001B"}, changes |-> {"0018", "001B"},
   files |-> {"0001", "0002", "0006", "0008", "000A", "000B"},
   named |-> {"0017", "001A"},
   opens |-> {<<"0018", "0017">>} \cup ({"001B"} \X {"001A", "0001"})]

Apps == {"common", "juki", "surface", "text", "jpki"}

MF == "MF"

\* The wrapper type of each dedicated file
Wrapper ==
  [d \in Apps \cup {MF} |->
     CASE d = "common"  -> CommonAp
       [] d = "juki"    -> JukiAp
       [] d = "surface" -> SurfaceAp
       [] d = "text"    -> TextAp
       [] d = "jpki"    -> JpkiAp
       [] d = MF        -> MasterFile]

\* Key references that leave the issuer already blocked
IssuedBlocked == {<<"text", "0012">>}

\* A command whose P2 carries a short EF identifier makes that EF current
ShortEf(d) == IF d \in {"common", "jpki"} THEN Wrapper[d].named ELSE {}
=============================================================================
