----------------------------- MODULE FileStore -----------------------------
(***************************************************************************)
(* What file-service promises about encrypted files, with no requests,     *)
(* threads, directories or synchronisations in it.  A file appears with    *)
(* its content in one step, loses it once and is only then marked as       *)
(* deleted.  Whatever is said about a file is true of it at the moment it  *)
(* is found out, and only content that is there and whole is handed out.   *)
(* The live export takes a copy of an active file, never of a deleted one. *)
(* FileVault is the detailed specification that implements this one.       *)
(***************************************************************************)
CONSTANTS
  Files,     \* uploads
  Askers     \* those who may ask for a file

VARIABLES
  row,       \* none, active or deleted
  content,   \* what the vault has for a file with a row: absent, whole or damaged
  copies,    \* the files in the export
  answer     \* per asker: what it was told, about which file

vars == <<row, content, copies, answer>>

Nothing == [says |-> "nothing", about |-> 0]
Told(s, f) == [says |-> s, about |-> f]

Init ==
  /\ row = [f \in Files |-> "none"]
  /\ content = [f \in Files |-> "absent"]
  /\ copies = {}
  /\ answer = [a \in Askers |-> Nothing]

Store(f) ==
  /\ row[f] = "none"
  /\ row' = [row EXCEPT ![f] = "active"]
  /\ \E c \in {"whole", "damaged"} : content' = [content EXCEPT ![f] = c]
  /\ UNCHANGED <<copies, answer>>

(* A deletion takes the content first; it may end there.                   *)
Unlink(f) ==
  /\ row[f] # "none"
  /\ content' = [content EXCEPT ![f] = "absent"]
  /\ UNCHANGED <<row, copies, answer>>
Mark(f) ==
  /\ row[f] = "active" /\ content[f] = "absent"
  /\ row' = [row EXCEPT ![f] = "deleted"]
  /\ UNCHANGED <<content, copies, answer>>

(* The disk.                                                               *)
Damage(f) ==
  /\ content[f] = "whole"
  /\ content' = [content EXCEPT ![f] = "damaged"]
  /\ UNCHANGED <<row, copies, answer>>

Copy(f) ==
  /\ row[f] = "active" /\ content[f] # "absent"
  /\ copies' = copies \cup {f}
  /\ UNCHANGED <<row, content, answer>>
Uncopy(f) ==
  /\ copies' = copies \ {f}
  /\ UNCHANGED <<row, content, answer>>

(* The first word about a file, or a second one before it is handed out.   *)
Judge(a, f) ==
  /\ row[f] # "none"
  /\ answer[a] \in {Nothing, Told("intact", f)}
  /\ answer' = [answer EXCEPT ![a] =
                  Told(IF content[f] = "whole" THEN "intact" ELSE "damaged", f)]
  /\ UNCHANGED <<row, content, copies>>

(* The content is handed out.                                              *)
Serve(a, f) ==
  /\ answer[a] = Told("intact", f) /\ content[f] = "whole"
  /\ answer' = [answer EXCEPT ![a] = Told("served", f)]
  /\ UNCHANGED <<row, content, copies>>

(* Requests end.                                                           *)
Forget(S) ==
  /\ answer' = [a \in Askers |-> IF a \in S THEN Nothing ELSE answer[a]]
  /\ UNCHANGED <<row, content, copies>>

Next ==
  \/ \E f \in Files : \/ Store(f) \/ Unlink(f) \/ Mark(f) \/ Damage(f)
                      \/ Copy(f) \/ Uncopy(f)
  \/ \E a \in Askers, f \in Files : Judge(a, f) \/ Serve(a, f)
  \/ \E S \in SUBSET Askers : Forget(S)

Spec == Init /\ [][Next]_vars
=============================================================================
