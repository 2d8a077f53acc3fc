----------------------------- MODULE WriteThread -----------------------------
(* asyncWrite: write the chunks to the temporary file and, when all went     *)
(* well, move that over the target.                                          *)
EXTENDS Pipeline

VARIABLES
  bytesWritten,
  temp,         \* what is in the temporary file, or NULL when there is none
  target        \* what was moved over the target file, or NULL while it is untouched

writeVars == <<bytesWritten, temp, target>>

WriteInit ==
  /\ bytesWritten = 0
  /\ temp = NULL
  /\ target = NULL

WriteOpen ==
  /\ pc["write"] = "start"
  /\ \/ /\ Go("write", "loop")
        /\ temp' = <<>>
        /\ UNCHANGED error
     \/ /\ "openWrite" \in Faults
        /\ Go("write", "exit")
        /\ error' = "FILE_IO_FAIL"
        /\ UNCHANGED temp
  /\ UNCHANGED <<file, running, valid, newFileSize, queue, hold, bytesWritten, target>>

\* A slip: an empty queue passes for the end of the file.
WriteTurnEmpty ==
  /\ Goto("write", "loop",
          IF KeepGoing /\ (temp = <<>> \/ front("write") # NULL) THEN "take" ELSE "finish")
  /\ UNCHANGED <<file, flagVars, queue, hold, writeVars>>

WriteTurn ==
  /\ Goto("write", "loop", IF KeepGoing THEN "take" ELSE "finish")
  /\ UNCHANGED <<file, flagVars, queue, hold, writeVars>>

\* A slip: the size is believed before there is one.
SizeReachedUnchecked == ~Encrypting /\ bytesWritten >= newFileSize

\* DONE ends the loop; so does, in decryption, having written as many bytes as
\* the header promises.  The chunk taken in the same turn is then dropped.
SizeReached == ~Encrypting /\ valid /\ bytesWritten >= newFileSize

WriteTake ==
  /\ pc["write"] = "take"
  /\ IF front("write") = NULL THEN UNCHANGED queue ELSE deque("write")
  /\ IF SizeReached \/ (front("write") # NULL /\ front("write").action = "DONE")
     THEN Go("write", "finish") /\ UNCHANGED hold
     ELSE IF front("write") = NULL
     THEN Go("write", "loop") /\ UNCHANGED hold
     ELSE Go("write", "write") /\ Keep("write", front("write"))
  /\ UNCHANGED <<file, flagVars, writeVars>>

\* Decryption writes no padding: nothing past the size in the header.
BytesToWrite ==
  IF ~Encrypting /\ bytesWritten + hold["write"].size > newFileSize
  THEN newFileSize - bytesWritten
  ELSE hold["write"].size

\* A slip: a failed write goes unnoticed.
WriteChunkUnnoticed ==
  /\ pc["write"] = "write"
  /\ Go("write", "loop")
  /\ \/ temp' = Append(temp, [Data(hold["write"]) EXCEPT !.size = BytesToWrite])
     \/ "write" \in Faults /\ UNCHANGED temp
  /\ bytesWritten' = bytesWritten + BytesToWrite
  /\ Keep("write", NULL)
  /\ UNCHANGED <<file, flagVars, queue, target>>

WriteChunk ==
  /\ pc["write"] = "write"
  /\ \/ /\ Go("write", "loop")
        /\ temp' = Append(temp, [Data(hold["write"]) EXCEPT !.size = BytesToWrite])
        /\ bytesWritten' = bytesWritten + BytesToWrite
        /\ Keep("write", NULL)
        /\ UNCHANGED error
     \/ /\ "write" \in Faults
        /\ Go("write", "finish")
        /\ error' = "FILE_IO_FAIL"
        /\ UNCHANGED <<temp, bytesWritten, hold>>
  /\ UNCHANGED <<file, running, valid, newFileSize, queue, target>>

\* A slip: the temporary file is moved whatever happened.
WriteFinishAlways ==
  /\ Goto("write", "finish", "rename")
  /\ UNCHANGED <<file, flagVars, queue, hold, writeVars>>

\* The last look at error.
WriteFinish ==
  /\ Goto("write", "finish", IF error = "none" THEN "rename" ELSE "exit")
  /\ UNCHANGED <<file, flagVars, queue, hold, writeVars>>

\* Nobody looks at the result of rename.
WriteRename ==
  /\ Goto("write", "rename", "stop")
  /\ \/ target' = temp /\ temp' = NULL
     \/ "rename" \in Faults /\ UNCHANGED <<target, temp>>
  /\ UNCHANGED <<file, flagVars, queue, hold, bytesWritten>>

WriteStop ==
  /\ Goto("write", "stop", "exit")
  /\ running' = FALSE
  /\ UNCHANGED <<file, error, valid, newFileSize, queue, hold, writeVars>>

Writer ==
  \/ WriteOpen \/ WriteTurn \/ WriteTake \/ WriteChunk
  \/ WriteFinish \/ WriteRename \/ WriteStop
=============================================================================
