------------------------------- MODULE Transfer -------------------------------
(***************************************************************************)
(* What the rest of the store takes the upload of one file for: the object *)
(* appears in one step and is what was digested, the call that wrote it    *)
(* succeeds only if it is there, and once the call has answered it writes  *)
(* nothing more.  Upload of Producer is Put and Succeed, Raise with the    *)
(* object in place, or Raise without it, each taken for one step.          *)
(***************************************************************************)
VARIABLES
    steady,  \* nobody has edited the file since the call began
    blob,    \* the object: "absent", "whole" (what was digested) or "torn" (another content)
    answer   \* of the call: "none" until it has one, then "ok" or "raised"

promiseVars == <<steady, blob, answer>>

Init == steady = TRUE /\ blob = "absent" /\ answer = "none"

Edit == steady' = FALSE /\ UNCHANGED <<blob, answer>>

\* Only a file that is edited can make an object of another content.
Appears == blob' = "whole" \/ (~steady /\ blob' = "torn")

Put ==
    /\ answer = "none"
    /\ Appears
    /\ UNCHANGED <<steady, answer>>

Succeed ==
    /\ answer = "none"
    /\ blob = "whole" \/ (~steady /\ blob = "torn")
    /\ answer' = "ok"
    /\ UNCHANGED <<steady, blob>>

\* The request that fails may have been applied.
Raise ==
    /\ answer = "none"
    /\ answer' = "raised"
    /\ UNCHANGED blob \/ Appears
    /\ UNCHANGED steady

Next == Edit \/ Put \/ Succeed \/ Raise

Spec == Init /\ [][Next]_promiseVars
=============================================================================
