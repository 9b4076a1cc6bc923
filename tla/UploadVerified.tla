---------------------------- MODULE UploadVerified ----------------------------
(***************************************************************************)
(* upload_verified: one file is digested, then sent, up to MaxAttempts     *)
(* times, and each time confirmed by a head_object.  The digest and the    *)
(* size are taken once; whoever still writes the file may change it        *)
(* between any two reads.  A file is a sequence of blocks, a block the     *)
(* number of the edit that wrote it.  S3 and the transfer manager are      *)
(* external: an object of up to SinglePart blocks is sent in one part and  *)
(* has a checksum of its whole content, a larger one only one of its parts.*)
(***************************************************************************)
EXTENDS Integers, Sequences, FiniteSets

CONSTANTS
    MaxAttempts,   \* _MAX_ATTEMPTS
    SinglePart,    \* the transfer manager's multipart threshold, in blocks
    Checksums,     \* {TRUE}, or {FALSE} for a store that reports no checksum, or both
    FirstBlocks,   \* bound: blocks of the file when the call begins
    MaxBlocks,     \* bound: blocks of the file at any time
    MaxEdits       \* bound: edits during the call

ASSUME TransferAssumption ==
    /\ MaxAttempts \in Nat \ {0}
    /\ SinglePart \in Nat
    /\ Checksums \subseteq BOOLEAN
    /\ FirstBlocks \subseteq 0..MaxBlocks
    /\ MaxBlocks \in Nat
    /\ MaxEdits \in Nat

VARIABLES
    file,     \* the local file now
    edits,    \* how often it was edited since the call began
    up,       \* the call: where it is, and its local variables
    object    \* the object in the bucket

transferVars == <<file, edits, up, object>>

Blocks   == 0..MaxEdits
Unread   == -1
Contents == UNION {[1..n -> Blocks] : n \in 0..MaxBlocks}
Partial  == UNION {[1..n -> Blocks \cup {Unread}] : n \in 0..MaxBlocks}
NoObject == [sent |-> <<>>, there |-> FALSE]

TransferEnds == {"returned", "mismatch", "refused", "gaveup"}
TransferPCs  == {"digesting", "sizing", "opening", "sending", "confirming"} \cup TransferEnds

\* digest stands for the two encodings of the hash: it is what was hashed.
UpRecord == [pc : TransferPCs, attempt : 1..MaxAttempts, digest : Contents, size : 0..MaxBlocks,
             sent : Partial, checksum : BOOLEAN]

TransferTypeOK ==
    /\ file \in Contents
    /\ edits \in 0..MaxEdits
    /\ up \in UpRecord
    /\ object \in [sent : Contents, there : BOOLEAN]

TransferInit ==
    /\ \E n \in FirstBlocks : file = [i \in 1..n |-> 0]
    /\ edits = 0
    /\ \E c \in Checksums :
          up = [pc |-> "digesting", attempt |-> 1, digest |-> <<>>, size |-> 0, sent |-> <<>>,
                checksum |-> c]
    /\ object = NoObject

-----------------------------------------------------------------------------
(* The process that writes the file. *)

Edited(content) ==
    /\ edits < MaxEdits
    /\ edits' = edits + 1
    /\ file' = content
    /\ UNCHANGED <<up, object>>

Overwrite(i) == i \in 1..Len(file) /\ Edited([file EXCEPT ![i] = edits + 1])
Extend       == Len(file) < MaxBlocks /\ Edited(Append(file, edits + 1))
Truncate     == file # <<>> /\ Edited(SubSeq(file, 1, Len(file) - 1))

Edit == (\E i \in 1..MaxBlocks : Overwrite(i)) \/ Extend \/ Truncate

-----------------------------------------------------------------------------
(* The call. *)

\* sha256_hex_and_b64_of_file, a chunk at a time.
Digest ==
    /\ up.pc = "digesting"
    /\ LET read == Len(up.digest)
       IN  IF read < Len(file) THEN up' = [up EXCEPT !.digest = Append(@, file[read + 1])]
                               ELSE up' = [up EXCEPT !.pc = "sizing"]
    /\ UNCHANGED <<file, edits, object>>

\* getsize, which asks for the file again.
Size ==
    /\ up.pc = "sizing"
    /\ up' = [up EXCEPT !.pc = "opening", !.size = Len(file)]
    /\ UNCHANGED <<file, edits, object>>

\* The file is gone, or cannot be read.
ReadFails ==
    /\ up.pc \in {"digesting", "sizing"}
    /\ up' = [up EXCEPT !.pc = "refused"]
    /\ UNCHANGED <<file, edits, object>>

\* Mutant: the attempts are not counted.
AttemptFailsUncounted(retryable) ==
    up' = IF ~retryable THEN [up EXCEPT !.pc = "refused"]
                        ELSE [up EXCEPT !.pc = "opening", !.sent = <<>>]

\* Mutant: one attempt more than there should be.
AttemptFailsOnceMore(retryable) ==
    up' = IF ~retryable THEN [up EXCEPT !.pc = "refused"]
          ELSE IF up.attempt > MaxAttempts THEN [up EXCEPT !.pc = "gaveup"]
          ELSE [up EXCEPT !.pc = "opening", !.attempt = @ + 1, !.sent = <<>>]

\* An attempt failed: with an error that no retry can mend the call raises, otherwise it sleeps
\* and tries again until the attempts are used up.
AttemptFails(retryable) ==
    up' = IF ~retryable THEN [up EXCEPT !.pc = "refused"]
          ELSE IF up.attempt = MaxAttempts THEN [up EXCEPT !.pc = "gaveup"]
          ELSE [up EXCEPT !.pc = "opening", !.attempt = @ + 1, !.sent = <<>>]

\* upload_file measures the file for itself.
Open ==
    /\ up.pc = "opening"
    /\ up' = [up EXCEPT !.pc = "sending", !.sent = [i \in 1..Len(file) |-> Unread]]
    /\ UNCHANGED <<file, edits, object>>

\* Parts are read in any order, by several threads.
SendBlock(i) ==
    /\ up.pc = "sending"
    /\ i \in 1..Len(up.sent)
    /\ up.sent[i] = Unread
    /\ i <= Len(file)
    /\ up' = [up EXCEPT !.sent[i] = file[i]]
    /\ UNCHANGED <<file, edits, object>>

\* Mutant: a request that fails is taken for one that was answered.
SendFailsUnnoticed(retryable) ==
    /\ up.pc = "sending"
    /\ up' = [up EXCEPT !.pc = "confirming"]
    /\ UNCHANGED <<file, edits, object>>

\* The request or a part of it fails, as it must when the file has become too short.
SendFails(retryable) ==
    /\ up.pc = "sending"
    /\ AttemptFails(retryable)
    /\ UNCHANGED <<file, edits, object>>

\* The object appears, whole; the answer may be lost.
SendDone(answered, retryable) ==
    /\ up.pc = "sending"
    /\ \A i \in 1..Len(up.sent) : up.sent[i] # Unread
    /\ object' = [sent |-> up.sent, there |-> TRUE]
    /\ IF answered THEN up' = [up EXCEPT !.pc = "confirming"] ELSE AttemptFails(retryable)
    /\ UNCHANGED <<file, edits>>

\* Mutant: an object of several parts is confirmed by the whole-file checksum it does not have.
ConfirmedWhole == Len(object.sent) <= SinglePart /\ object.sent = up.digest

\* Mutant: what is confirmed is the size, whatever checksum there is.
ConfirmedBySize == Len(object.sent) = up.size

\* head_object reports the checksum of the whole object only of a single part.
Confirmed ==
    IF up.checksum /\ Len(object.sent) <= SinglePart THEN object.sent = up.digest
                                                     ELSE Len(object.sent) = up.size

\* A mismatch is not retried.
Confirm ==
    /\ up.pc = "confirming"
    /\ up' = [up EXCEPT !.pc = IF Confirmed THEN "returned" ELSE "mismatch"]
    /\ UNCHANGED <<file, edits, object>>

ConfirmFails(retryable) ==
    /\ up.pc = "confirming"
    /\ AttemptFails(retryable)
    /\ UNCHANGED <<file, edits, object>>

CallStep ==
    \/ Digest
    \/ Size
    \/ ReadFails
    \/ Open
    \/ \E i \in 1..MaxBlocks : SendBlock(i)
    \/ \E answered, retryable \in BOOLEAN : SendDone(answered, retryable)
    \/ \E retryable \in BOOLEAN : SendFails(retryable) \/ ConfirmFails(retryable)
    \/ Confirm

TransferNext == CallStep \/ Edit

TransferSpec == TransferInit /\ [][TransferNext]_transferVars

-----------------------------------------------------------------------------
(* Properties *)

\* A transfer that returns has the file as it was digested in the bucket; only the object of a
\* file that changed during the call may differ from the digest stored with it, and then it has
\* the size the file had when it was measured and no checksum of its whole content.
ReturnedIsDigested ==
    up.pc = "returned" =>
        /\ object.there
        /\ \/ object.sent = up.digest
           \/ /\ edits > 0
              /\ Len(object.sent) = up.size
              /\ ~up.checksum \/ Len(object.sent) > SinglePart

\* "Deterministic verification failure": nobody is told of a mismatch of a file that was left
\* alone, large files of many parts included, whatever was lost and sent again.
AlarmIsDeserved == up.pc = "mismatch" => edits > 0

\* The call has returned or raised.
TransferEnded == up.pc \in TransferEnds

\* How many steps a call can still take: an attempt opens the file, reads its blocks, ends and is
\* confirmed.
AttemptSteps == MaxBlocks + 3
Retries(call) == (MaxAttempts - call.attempt) * AttemptSteps
Unsent(call)  == Cardinality({i \in 1..Len(call.sent) : call.sent[i] = Unread})
StepsLeft(call) ==
    CASE call.pc = "digesting"  -> Retries(call) + AttemptSteps + 2 + MaxBlocks - Len(call.digest)
      [] call.pc = "sizing"     -> Retries(call) + AttemptSteps + 1
      [] call.pc = "opening"    -> Retries(call) + AttemptSteps
      [] call.pc = "sending"    -> Retries(call) + 2 + Unsent(call)
      [] call.pc = "confirming" -> Retries(call) + 1
      [] OTHER                  -> 0

\* "upload failed after ... attempts": whatever fails, whatever answer is lost and whoever edits the
\* file between two steps, no step leads the call back to where it was, and its steps run out.
TransferRunsOut ==
    [][StepsLeft(up) >= 0 /\ (up' # up => StepsLeft(up') < StepsLeft(up))]_transferVars

\* What Producer's Upload takes for one step keeps the promise it is trusted for.
Promised == INSTANCE Transfer
            WITH steady <- edits = 0,
                 blob   <- IF ~object.there THEN "absent"
                           ELSE IF object.sent = up.digest THEN "whole" ELSE "torn",
                 answer <- IF up.pc = "returned" THEN "ok"
                           ELSE IF TransferEnded THEN "raised" ELSE "none"

\* The call writes nothing but whole objects of a file that is left alone, succeeds only with one in
\* the bucket, and leaves the object alone once it has answered.
ImplementsTransfer == Promised!Spec
=============================================================================
