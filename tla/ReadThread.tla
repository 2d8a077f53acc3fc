----------------------------- MODULE ReadThread ------------------------------
(* queueFileForEncrypt and queueFileForDecrypt: cut the file into chunks and *)
(* queue them, then DONE.                                                    *)
EXTENDS Pipeline

VARIABLES
  origFileSize,  \* orig_file_size, as stat gave it
  bytesRead

readVars == <<origFileSize, bytesRead>>

ReadInit ==
  /\ origFileSize = 0
  /\ bytesRead = 0

\* What stat may say of the file: a failure is the size 0.
Sizes == {file.size} \cup (IF "stat" \in Faults THEN {0} ELSE {})

\* Encryption looks at this size again, decryption at the one main has seen: to
\* it a failed stat is a file with nothing left to read.  After a refusal, and
\* after a failed open, the thread ends and queues no DONE.
ReadOpen ==
  /\ pc["read"] = "start"
  /\ origFileSize' \in Sizes
  /\ IF IF Encrypting THEN origFileSize' = 0 ELSE TooSmall
     THEN Go("read", "exit") /\ error' = "FILE_TOO_SMALL"
     ELSE \/ Go("read", "loop") /\ UNCHANGED error
          \/ /\ "openRead" \in Faults
             /\ Go("read", "exit")
             /\ error' = "FILE_IO_FAIL"
  /\ UNCHANGED <<file, running, valid, newFileSize, queue, hold, bytesRead>>

\* What is left of the file, for decryption without the MAC at its end.
Rest == origFileSize - bytesRead - (IF Encrypting THEN 0 ELSE Block)

PlainChunk ==
  LET size == IF Rest >= MaxChunk THEN MaxChunk ELSE Rest
  IN  [size |-> size,
       chunk |-> Chunk("ENCRYPT", bytesRead \div MaxChunk + 1, <<>>, <<>>, getPadSize(size))]

\* The chunk of cipher text at bytesRead, as the file's damage left it.
HeaderSeal ==
  CASE file.damage = "header" -> <<Garbled>>
    [] file.damage = "iv" -> <<OtherIV>>
    [] OTHER -> <<IV>>

DataSeal(k) ==
  IF (file.damage = "body" /\ k = 1) \/ k > DataChunks(file.plain)
  THEN <<Garbled>>
  ELSE <<k - 1>>

CipherChunk ==
  LET k == (bytesRead - HeaderSize) \div MaxChunk + 1
      size == IF bytesRead = 0 THEN HeaderSize
              ELSE IF Rest >= MaxChunk THEN MaxChunk
              ELSE IF Rest > 0 THEN Rest
              ELSE Block
      digest == IF file.damage \in {"extended", "shortened"} THEN <<>>
                ELSE CipherText(file.plain)
  IN  [size |-> size,
       chunk |-> IF bytesRead = 0
                 THEN Chunk("CHECK_HEADER", HeaderId, HeaderSeal, <<>>, size)
                 ELSE IF Rest > 0
                 THEN Chunk("GEN_MAC", k, DataSeal(k), <<>>, getPadSize(size))
                 ELSE Chunk("MAC", MacId, <<>>, digest, size)]

\* One turn of the loop.  A read that comes back short leaves pad copying from
\* a null pointer, which ends the process.
ReadChunk ==
  LET next == IF Encrypting THEN PlainChunk ELSE CipherChunk
  IN  /\ pc["read"] = "loop"
      /\ KeepGoing
      /\ bytesRead < origFileSize
      /\ \/ /\ bytesRead' = bytesRead + next.size
            /\ Keep("read", next.chunk)
            /\ Go("read", "queue")
         \/ /\ "read" \in Faults
            /\ Go("main", "crashed")
            /\ UNCHANGED <<bytesRead, hold>>
      /\ UNCHANGED <<file, flagVars, queue, origFileSize>>

\* The wait for room looks neither at running nor at error.
ReadQueue ==
  /\ Goto("read", "queue", "loop")
  /\ Put(ReadOut, hold["read"])
  /\ Keep("read", NULL)
  /\ UNCHANGED <<file, flagVars, readVars>>

ReadEnd ==
  /\ Goto("read", "loop", "flush")
  /\ ~(KeepGoing /\ bytesRead < origFileSize)
  /\ UNCHANGED <<file, flagVars, queue, hold, readVars>>

ReadDone ==
  /\ Goto("read", "flush", "exit")
  /\ Put(ReadOut, DONE)
  /\ UNCHANGED <<file, flagVars, hold, readVars>>

Reader == ReadOpen \/ ReadChunk \/ ReadQueue \/ ReadEnd \/ ReadDone
=============================================================================
