----------------------------- MODULE Controller ------------------------------
(***************************************************************************)
(* runThreefizer: checks, the keys, the header, four threads, and the      *)
(* clean-up after they are joined.                                         *)
(***************************************************************************)
EXTENDS ReadThread, CryptoThread, MacThread, WriteThread

VARIABLE status  \* what runThreefizer returned, or NULL

threadVars == <<readVars, cryptoVars, macVars, writeVars>>
vars == <<pipelineVars, threadVars, status>>

Init ==
  /\ PipelineInit
  /\ ReadInit /\ CryptoInit /\ MacInit /\ WriteInit
  /\ status = NULL

Return(s) ==
  /\ Go("main", "over")
  /\ status' = s

\* The returns before any thread exists.  A stat that fails in main makes the
\* file one of no bytes.  genHeader wants more than one.
Refuse ==
  /\ pc["main"] = "start"
  /\ \/ (TooSmall \/ "stat" \in Faults) /\ Return("FILE_TOO_SMALL")
     \/ ~TooSmall /\ "keys" \in Faults /\ Return("KEY_GENERATION_FAIL")
     \/ ~TooSmall /\ Encrypting /\ file.size <= 1 /\ Return("QUEUE_OPERATION_FAIL")
  /\ UNCHANGED <<file, flagVars, queue, hold, threadVars>>

\* The header is the first thing in the queue; then the threads start.  The
\* progress bar is for files of more than one chunk.
StartThreads ==
  /\ Goto("main", "start", IF file.size > MaxChunk THEN "bar" ELSE "join")
  /\ ~TooSmall
  /\ IF Encrypting
     THEN /\ file.size > 1
          /\ queue' = [queue EXCEPT !["crypto"] =
                         <<Chunk("ENCRYPT", HeaderId, <<>>, <<>>, HeaderSize)>>]
     ELSE UNCHANGED queue
  /\ UNCHANGED <<file, flagVars, hold, threadVars, status>>

\* A slip: the progress bar does not look at error.
LeaveBarIfDone ==
  /\ Goto("main", "bar", "join")
  /\ ~running
  /\ UNCHANGED <<file, flagVars, queue, hold, threadVars, status>>

\* printProgressBar returns when the flags say so, as the other loops do,
LeaveBar ==
  /\ Goto("main", "bar", "join")
  /\ ~KeepGoing
  /\ UNCHANGED <<file, flagVars, queue, hold, threadVars, status>>

\* or when the progress counted reaches the expected one.  A thread that finds
\* the progress mutex taken does not count, so this need not ever happen.
BarFull ==
  /\ Goto("main", "bar", "join")
  /\ KeepGoing
  /\ UNCHANGED <<file, flagVars, queue, hold, threadVars, status>>

\* pthread_join four times, destroy, unlink the temporary file after an error.
JoinAndCleanUp ==
  /\ pc["main"] = "join"
  /\ \A t \in Threads : pc[t] = "exit"
  /\ Return(IF error = "none" THEN "SUCCESS" ELSE error)
  /\ queue' = [q \in Queues |-> <<>>]
  /\ temp' = IF error = "none" THEN temp ELSE NULL
  /\ UNCHANGED <<file, flagVars, hold, readVars, cryptoVars, macVars, bytesWritten, target>>

\* The threads run between their creation and the end of the process.
Started == pc["main"] \in {"bar", "join"}

ReadStep == Started /\ Reader /\ UNCHANGED <<cryptoVars, macVars, writeVars, status>>
CryptoStep == Started /\ Crypto /\ UNCHANGED <<readVars, macVars, writeVars, status>>
MacStep == Started /\ Mac /\ UNCHANGED <<readVars, cryptoVars, writeVars, status>>
WriteStep == Started /\ Writer /\ UNCHANGED <<readVars, cryptoVars, macVars, status>>
MainStep == Refuse \/ StartThreads \/ LeaveBar \/ JoinAndCleanUp

\* The process has ended.
Over == pc["main"] \in {"over", "crashed"}
Terminated == Over /\ UNCHANGED vars

\* The queue a thread sleeps on in while (queueIsFull(out)) nanosleep, if any.
WaitsOn(t) ==
  CASE t = "read" /\ pc[t] \in {"queue", "flush"} -> ReadOut
    [] t = "crypto" /\ pc[t] = "flush" -> CryptoOut
    [] t = "mac" /\ pc[t] \in {"put", "append", "flush"} -> MacOut
    [] OTHER -> NULL

Sleeping(t) == WaitsOn(t) # NULL /\ queueIsFull(WaitsOn(t))

\* Another turn of a thread that sleeps, or of the progress bar.
Sleep ==
  /\ Started
  /\ pc["main"] = "bar" \/ \E t \in Threads : Sleeping(t)
  /\ UNCHANGED vars

Next ==
  \/ ReadStep \/ CryptoStep \/ MacStep \/ WriteStep
  \/ MainStep \/ BarFull \/ Sleep \/ Terminated

\* The kernel runs every thread that can go on.  What a thread waits for (room
\* that only it uses, chunks that only it takes) does not go away again, so
\* weak fairness of each thread is all that is asked.
Fairness ==
  /\ WF_vars(ReadStep)
  /\ WF_vars(CryptoStep)
  /\ WF_vars(MacStep)
  /\ WF_vars(WriteStep)
  /\ WF_vars(MainStep)

Spec == Init /\ [][Next]_vars /\ Fairness

-----------------------------------------------------------------------------
(* Properties *)

Errors == {"FILE_IO_FAIL", "FILE_TOO_SMALL", "MEMORY_ALLOCATION_FAIL",
           "HEADER_CHECK_FAIL", "MAC_CHECK_FAIL"}

Statuses == Errors \cup {"SUCCESS", "KEY_GENERATION_FAIL", "QUEUE_OPERATION_FAIL"}

\* NULL is told from every status and from every list of places and sizes.
ASSUME StatusAssumption ==
  NULL \notin Statuses /\ NULL \notin Seq(Int \X Int)

ChunkOK(chunk) ==
  /\ chunk.action \in {"ENCRYPT", "GEN_MAC", "DECRYPT", "CHECK_HEADER", "WRITE", "MAC", "DONE"}
  /\ chunk.id \in {HeaderId, MacId, NoId} \cup 1 .. DataChunks(file.size)
  /\ Len(chunk.seal) <= 1
  /\ chunk.size \in 0 .. HeaderSize + MaxChunk

\* Every variable has its type.  No queue exceeds its capacity, and no chunk
\* is ever enciphered twice, not even the header, which encryptQueue passes on
\* without setting the flag that protects the other chunks from that.
TypeOK ==
  /\ file \in Files
  /\ running \in BOOLEAN /\ valid \in BOOLEAN
  /\ error \in Errors \cup {"none"}
  /\ newFileSize \in {0, file.promised}
  /\ \A q \in Queues : /\ Len(queue[q]) <= Capacity
                       /\ \A i \in DOMAIN queue[q] : ChunkOK(queue[q][i])
  /\ \A t \in Threads : hold[t] # NULL => ChunkOK(hold[t])
  /\ origFileSize \in {0, file.size} /\ bytesRead \in 0 .. origFileSize
  /\ bytesWritten \in Nat

\* The chunks between the temporary file and the reader, oldest first.
HeldBy(t) == IF hold[t] = NULL THEN <<>> ELSE <<hold[t]>>
At(t) == HeldBy(t) \o queue[t]
OnTheWay ==
  temp \o At("write")
    \o (IF Encrypting THEN At("mac") \o At("crypto") ELSE At("crypto") \o At("mac"))
    \o HeldBy("read")

\* The data chunks of line are a + 1 .. b, each of them once and in this order.
Runs(line, a, b) ==
  /\ \A i \in DOMAIN line : line[i].id >= 1 => line[i].id \in a + 1 .. b
  /\ \A k \in a + 1 .. b : \E i \in DOMAIN line : line[i].id = k
  /\ \A i, j \in DOMAIN line :
       i < j /\ line[i].id >= 1 /\ line[j].id >= 1 => line[i].id < line[j].id

ChunksRead ==
  IF Encrypting THEN DataChunks(bytesRead)
  ELSE IF bytesRead <= HeaderSize THEN 0
  ELSE DataChunks(IF bytesRead = file.size THEN bytesRead - HeaderSize - Block
                  ELSE bytesRead - HeaderSize)

\* While the run goes on, every chunk read is in exactly one place, and they
\* follow each other through the threads and queues in the file's order: no
\* thread drops, repeats or overtakes a chunk.
StreamInOrder ==
  Started /\ KeepGoing /\ pc["write"] \in {"loop", "take", "write"} =>
    Runs(OnTheWay, 0, ChunksRead)

\* What the run is to write; in decryption that is what the header promises.
Expected == IF Encrypting THEN EncryptedFile(file.plain) ELSE PlainFile(file.promised)
\* No chunk was changed: what is deciphered is the plain file, or a part of it.
SameBody == file.damage \in {"intact", "iv"}
Shape(pieces) == [i \in DOMAIN pieces |-> <<pieces[i].id, pieces[i].size>>]

\* What replaces the target is all there was to write, whatever failed before:
\* the header, every chunk enciphered after the one before it and the MAC of all
\* that; or, in decryption, as much as the header promises, deciphered with the
\* right chain unless the chunks were changed.  The header promises the size of
\* the plain file, unless its IV was changed: then what replaces the target may
\* be the plain file's beginning, or nothing.
CommitIsAsPromised ==
  target # NULL =>
    /\ Shape(target) = Shape(Expected)
    /\ SameBody => target = Expected

\* A success that is reported is one: the input was authentic, and the complete
\* output is in place, or, when rename failed, in the temporary file.
SuccessIsReal ==
  status = "SUCCESS" =>
    /\ file.damage = "intact"
    /\ target = Expected \/ (target = NULL /\ temp = Expected)

\* README: "Only overwrites files on success".
OverwritesOnlyOnSuccess ==
  status # NULL /\ status # "SUCCESS" => target = NULL

\* The pieces are compared with their contents, or by their place and size when
\* a chunk was changed and nobody can say what they should contain.
View(pieces) == IF SameBody THEN pieces ELSE Shape(pieces)

Run == INSTANCE OneRun WITH
  output <- View(Expected), authentic <- file.damage = "intact",
  decrypting <- ~Encrypting, replaced <- target # NULL,
  temp <- IF temp = NULL THEN NULL ELSE View(temp)

\* Whatever the four threads do, the run keeps the promises of OneRun.
ImplementsRun == Run!Spec

\* error.c on MAC_CHECK_FAIL: "the encrypted file has been modified or corrupted".
MacFailMeansModified == status = "MAC_CHECK_FAIL" => file.damage # "intact"

\* README: "Any changes to the initialization vector or header will cause the
\* header check to fail and decryption to be aborted".
HeaderChangeAborts ==
  file.damage \in {"header", "iv"} =>
    target = NULL /\ status \in {NULL, "HEADER_CHECK_FAIL"}

\* A thread that sleeps on a full queue whose other end is gone sleeps forever.
Orphaned(t) == Sleeping(t) /\ pc[WaitsOn(t)] = "exit"

\* generateMAC waits for a DONE that will not come.
MacStarved ==
  /\ Encrypting
  /\ pc["mac"] \in {"cond", "get"}
  /\ queue["mac"] = <<>>
  /\ pc["crypto"] = "exit"

\* authenticateMAC, after a DONE that came first, waits for a MAC that will not
\* come: the reader, whose stat failed, has read nothing and reported nothing.
NothingRead ==
  /\ ~Encrypting
  /\ pc["mac"] \in {"stored", "fetch"}
  /\ KeepGoing
  /\ pc["read"] = "exit" /\ origFileSize = 0

\* Only a run that has failed, or in decryption has already written all it is
\* going to write, leaves a thread asleep on a queue nobody empties.
OrphansOnlyAfterEnd ==
  (\E t \in Threads : Orphaned(t)) => IF Encrypting THEN error # "none" ELSE ~KeepGoing

\* Every run ends, or is stuck for good for one of the three reasons above and
\* no other.
Ends == <>[](Over \/ MacStarved \/ NothingRead \/ \E t \in Threads : Orphaned(t))

\* Every encryption ends when nothing fails.
EncryptionEnds == <>Over
=============================================================================
