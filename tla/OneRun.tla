-------------------------------- MODULE OneRun --------------------------------
(***************************************************************************)
(* What one call of runThreefizer promises about the files, whatever its   *)
(* threads do: the temporary file only grows, only the whole output        *)
(* replaces a file, and the status says what happened.                     *)
(***************************************************************************)
EXTENDS Integers, Sequences

CONSTANT NULL

VARIABLES
  output,      \* all the run has to write, in pieces; in decryption, of the
               \* size the header promises, which nobody has checked yet
  authentic,   \* whether the input is as some encryption left it
  decrypting,
  temp,        \* what the run has written of it, or NULL
  replaced,    \* whether the destination was replaced
  status       \* what was returned, or NULL

vars == <<output, authentic, decrypting, temp, replaced, status>>

Init ==
  /\ authentic \in BOOLEAN /\ decrypting \in BOOLEAN
  /\ temp = NULL /\ replaced = FALSE /\ status = NULL

Open ==
  /\ status = NULL /\ temp = NULL /\ ~replaced
  /\ temp' = <<>>
  /\ UNCHANGED <<output, authentic, decrypting, replaced, status>>

\* The next piece, or any when something has failed or the input is not
\* authentic: threads that see the error late still pass on what they have.
Write ==
  /\ status = NULL /\ temp # NULL /\ temp' # NULL
  /\ Len(temp') = Len(temp) + 1
  /\ SubSeq(temp', 1, Len(temp)) = temp
  /\ UNCHANGED <<output, authentic, decrypting, replaced, status>>

Place ==
  /\ status = NULL /\ temp = output
  /\ temp' = NULL /\ replaced' = TRUE
  /\ UNCHANGED <<output, authentic, decrypting, status>>

\* The output is in its place or, when that could not be, waits in the
\* temporary file.
Succeed ==
  /\ status = NULL /\ authentic
  /\ replaced \/ temp = output
  /\ status' = "SUCCESS"
  /\ UNCHANGED <<output, authentic, decrypting, temp, replaced>>

\* Only a decryption can fail when the destination is replaced.
Fail(error) ==
  /\ status = NULL
  /\ replaced => decrypting
  /\ status' = error /\ error # "SUCCESS"
  /\ temp' = NULL
  /\ UNCHANGED <<output, authentic, decrypting, replaced>>

Next == Open \/ Write \/ Place \/ Succeed \/ Fail(status')

Spec == Init /\ [][Next]_vars
=============================================================================
