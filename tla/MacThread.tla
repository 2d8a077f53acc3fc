------------------------------ MODULE MacThread ------------------------------
(* generateMAC and authenticateMAC: hash every chunk on its way through, then *)
(* append the MAC to the file, or compare it with the one the file ends in.  *)
EXTENDS Pipeline

VARIABLES
  digest,        \* what the Skein context has hashed, in order
  macHeader      \* authenticateMAC's header: it is still to be checked

macVars == <<digest, macHeader>>

MacInit ==
  /\ digest = <<>>
  /\ macHeader = TRUE

Held == hold["mac"]

MacStart ==
  /\ Goto("mac", "start", IF Encrypting THEN "cond" ELSE "auth")
  /\ UNCHANGED <<file, flagVars, queue, hold, macVars>>

-----------------------------------------------------------------------------
(* generateMAC.  It looks neither at running nor at error. *)

\* while (front(in) == NULL || front(in)->action != DONE)
SeesDone == front("mac") # NULL /\ front("mac").action = "DONE"

GenerateCond ==
  /\ Goto("mac", "cond", IF SeesDone THEN "append" ELSE "get")
  /\ UNCHANGED <<file, flagVars, queue, hold, macVars>>

\* Take the chunk now in front, which need not be the one the condition saw,
\* and hash it.
GenerateGet ==
  /\ pc["mac"] = "get"
  /\ Held = NULL /\ front("mac") # NULL
  /\ deque("mac")
  /\ IF front("mac").action = "GEN_MAC"
     THEN /\ digest' = Append(digest, Data(front("mac")))
          /\ Keep("mac", [front("mac") EXCEPT !.action = "DECRYPT"])
          /\ Go("mac", "put")
     ELSE /\ Keep("mac", front("mac"))
          /\ Go("mac", "cond")
          /\ UNCHANGED digest
  /\ UNCHANGED <<file, flagVars, macHeader>>

\* Nothing to take, or still holding what it cannot pass on.
GenerateIdle ==
  /\ Goto("mac", "get", "cond")
  /\ Held # NULL \/ front("mac") = NULL
  /\ UNCHANGED <<file, flagVars, queue, hold, macVars>>

GeneratePut ==
  /\ Goto("mac", "put", "cond")
  /\ Put(MacOut, Held)
  /\ Keep("mac", NULL)
  /\ UNCHANGED <<file, flagVars, macVars>>

\* DONE stays in the queue.
GenerateAppend ==
  /\ Goto("mac", "append", "flush")
  /\ Put(MacOut, Chunk("MAC", MacId, <<>>, digest, Block))
  /\ UNCHANGED <<file, flagVars, hold, macVars>>

-----------------------------------------------------------------------------
(* authenticateMAC *)

AuthTurn ==
  /\ Goto("mac", "auth", IF KeepGoing THEN "take" ELSE "final")
  /\ UNCHANGED <<file, flagVars, queue, hold, macVars>>

\* The MAC is looked at and left in the queue.
AuthTake ==
  /\ pc["mac"] = "take"
  /\ Held = NULL
  /\ IF front("mac") = NULL
     THEN Go("mac", "auth") /\ UNCHANGED <<queue, hold>>
     ELSE IF front("mac").action = "MAC"
     THEN Go("mac", "final") /\ UNCHANGED <<queue, hold>>
     ELSE /\ deque("mac")
          /\ IF front("mac").action = "DONE"
             THEN Go("mac", "final") /\ UNCHANGED hold
             ELSE Go("mac", "hash") /\ Keep("mac", front("mac"))
  /\ UNCHANGED <<file, flagVars, macVars>>

\* A chunk that was hashed and found no room comes round again.
AuthHeld ==
  /\ Goto("mac", "take", "pass")
  /\ Held # NULL
  /\ UNCHANGED <<file, flagVars, queue, hold, macVars>>

\* The first chunk must decipher to a header of this program with this key: to
\* two words of it, and nothing is asked of the size between them.  Another IV
\* may leave both as they were.
checkHeader(chunk) == chunk.seal \in {<<IV>>, <<OtherIV>>}

\* A slip: the thread ends without setting the error.
AuthHeaderBadQuiet ==
  /\ Goto("mac", "hash", "exit")
  /\ macHeader
  /\ ~checkHeader(Held)
  /\ UNCHANGED <<file, flagVars, queue, hold, macVars>>

AuthHeaderBad ==
  /\ Goto("mac", "hash", "exit")
  /\ macHeader
  /\ \/ ~checkHeader(Held) /\ error' = "HEADER_CHECK_FAIL"
     \/ "alloc" \in Faults /\ error' = "MEMORY_ALLOCATION_FAIL"
  /\ UNCHANGED <<file, running, valid, newFileSize, queue, hold, macVars>>

AuthHash ==
  /\ Goto("mac", "hash", "pass")
  /\ macHeader => checkHeader(Held)
  /\ valid' = TRUE
  /\ newFileSize' = IF macHeader THEN file.promised ELSE newFileSize
  /\ macHeader' = FALSE
  /\ digest' = Append(digest, Data(Held))
  /\ Keep("mac", [Held EXCEPT !.action = "WRITE"])
  /\ UNCHANGED <<file, running, error, queue>>

\* A slip: it does not look for room.
AuthPassUnchecked ==
  /\ Goto("mac", "pass", "auth")
  /\ queue' = [queue EXCEPT ![MacOut] = Append(@, Held)]
  /\ Keep("mac", NULL)
  /\ UNCHANGED <<file, flagVars, macVars>>

AuthPass ==
  /\ Goto("mac", "pass", "auth")
  /\ IF queueIsFull(MacOut)
     THEN UNCHANGED <<queue, hold>>
     ELSE Put(MacOut, Held) /\ Keep("mac", NULL)
  /\ UNCHANGED <<file, flagVars, macVars>>

\* skeinFinal, into a buffer that may not be had.
AuthFinal ==
  /\ pc["mac"] = "final"
  /\ \/ /\ Go("mac", "stored")
        /\ UNCHANGED error
     \/ /\ "alloc" \in Faults
        /\ Go("mac", "exit")
        /\ error' = "MEMORY_ALLOCATION_FAIL"
  /\ Keep("mac", NULL)
  /\ UNCHANGED <<file, running, valid, newFileSize, queue, macVars>>

\* Wait for the MAC the file ends in, as long as the others go on.
AuthStored ==
  /\ Goto("mac", "stored", IF KeepGoing THEN "fetch" ELSE "verdict")
  /\ UNCHANGED <<file, flagVars, queue, hold, macVars>>

AuthFetch ==
  /\ pc["mac"] = "fetch"
  /\ IF front("mac") = NULL
     THEN Go("mac", "stored") /\ UNCHANGED <<queue, hold>>
     ELSE Go("mac", "verdict") /\ deque("mac") /\ Keep("mac", front("mac"))
  /\ UNCHANGED <<file, flagVars, macVars>>

\* A slip: some MAC is as good as the right one.
MacPresent == Held # NULL /\ Held.action = "MAC"

\* The stored MAC must be there and equal the calculated one.  Whatever error
\* was set before is overwritten.
MacMatches == Held # NULL /\ Held.action = "MAC" /\ Held.digest = digest

\* A slip: the error is not set.
AuthVerdictQuiet ==
  /\ Goto("mac", "verdict", IF MacMatches THEN "flush" ELSE "exit")
  /\ Keep("mac", NULL)
  /\ UNCHANGED <<file, flagVars, queue, macVars>>

AuthVerdict ==
  /\ pc["mac"] = "verdict"
  /\ IF MacMatches
     THEN Go("mac", "flush") /\ UNCHANGED error
     ELSE Go("mac", "exit") /\ error' = "MAC_CHECK_FAIL"
  /\ Keep("mac", NULL)
  /\ UNCHANGED <<file, running, valid, newFileSize, queue, macVars>>

-----------------------------------------------------------------------------

MacDone ==
  /\ Goto("mac", "flush", "exit")
  /\ Put(MacOut, DONE)
  /\ UNCHANGED <<file, flagVars, hold, macVars>>

Mac ==
  \/ MacStart
  \/ GenerateCond \/ GenerateGet \/ GenerateIdle \/ GeneratePut \/ GenerateAppend
  \/ AuthTurn \/ AuthTake \/ AuthHeld \/ AuthHeaderBad \/ AuthHash \/ AuthPass
  \/ AuthFinal \/ AuthStored \/ AuthFetch \/ AuthVerdict
  \/ MacDone
=============================================================================
