---------------------------- MODULE CryptoThread -----------------------------
(* encryptQueue and decryptQueue: take chunks, encipher or decipher them in  *)
(* CBC mode across chunk boundaries, pass them on, then DONE.                *)
EXTENDS Pipeline

VARIABLES
  header,      \* first_chunk / header: the header has not passed yet
  worked,      \* encrypted / decrypted: the held chunk has been worked on
  chain,       \* chain (encryption), chain_even (decryption)
  chainOdd,    \* chain_odd
  even         \* decrypt_count is even

cryptoVars == <<header, worked, chain, chainOdd, even>>

CryptoInit ==
  /\ header = TRUE
  /\ worked = FALSE
  /\ chain = IV
  /\ chainOdd = IV
  /\ even = TRUE

\* Without memory for the chain the thread ends and queues no DONE.
CryptoStart ==
  /\ pc["crypto"] = "start"
  /\ \/ /\ Go("crypto", "loop")
        /\ UNCHANGED error
     \/ /\ "alloc" \in Faults
        /\ Go("crypto", "exit")
        /\ error' = "MEMORY_ALLOCATION_FAIL"
  /\ UNCHANGED <<file, running, valid, newFileSize, queue, hold, cryptoVars>>

CryptoTurn ==
  /\ Goto("crypto", "loop", IF KeepGoing THEN "take" ELSE "flush")
  /\ UNCHANGED <<file, flagVars, queue, hold, cryptoVars>>

\* Unless a chunk is still held, take the first one of the queue, if any.
Taken == IF hold["crypto"] = NULL THEN front("crypto") ELSE hold["crypto"]
Fresh == hold["crypto"] = NULL /\ Taken # NULL
TakeIt == IF Fresh THEN deque("crypto") ELSE UNCHANGED queue

CryptoNothing ==
  /\ Goto("crypto", "take", "loop")
  /\ Taken = NULL
  /\ UNCHANGED <<file, flagVars, queue, hold, cryptoVars>>

CryptoSeesDone ==
  /\ Goto("crypto", "take", "flush")
  /\ Taken # NULL /\ Taken.action = "DONE"
  /\ TakeIt
  /\ UNCHANGED <<file, flagVars, hold, cryptoVars>>

\* A slip: the chain is not saved for the next chunk.
EncryptHeaderChainless ==
  /\ Encrypting /\ header
  /\ Goto("crypto", "take", "put")
  /\ Taken # NULL /\ Taken.action # "DONE"
  /\ TakeIt
  /\ Keep("crypto", Encipher(Taken, IV))
  /\ header' = FALSE
  /\ worked' = FALSE
  /\ UNCHANGED <<file, flagVars, chain, chainOdd, even>>

\* The header is enciphered after its own IV.  encrypted stays false.
EncryptHeader ==
  /\ Encrypting /\ header
  /\ Goto("crypto", "take", "put")
  /\ Taken # NULL /\ Taken.action # "DONE"
  /\ TakeIt
  /\ LET sealed == Encipher(Taken, IV)
     IN  Keep("crypto", sealed) /\ chain' = ChainOf(sealed)
  /\ header' = FALSE
  /\ worked' = FALSE
  /\ UNCHANGED <<file, flagVars, chainOdd, even>>

\* A slip: a chunk that found no room is enciphered once more.
EncryptChunkAgain ==
  /\ Encrypting /\ ~header
  /\ Goto("crypto", "take", "put")
  /\ Taken # NULL /\ Taken.action # "DONE"
  /\ TakeIt
  /\ Keep("crypto", Encipher(Taken, chain))
  /\ chain' = ChainOf(hold'["crypto"])
  /\ worked' = TRUE
  /\ UNCHANGED <<file, flagVars, header, chainOdd, even>>

EncryptChunk ==
  LET sealed == IF Fresh \/ ~worked THEN Encipher(Taken, chain) ELSE Taken
  IN  /\ Encrypting /\ ~header
      /\ Goto("crypto", "take", "put")
      /\ Taken # NULL /\ Taken.action # "DONE"
      /\ TakeIt
      /\ Keep("crypto", sealed)
      /\ chain' = ChainOf(sealed)
      /\ worked' = TRUE
      /\ UNCHANGED <<file, flagVars, header, chainOdd, even>>

\* The header only gives the first chain block.
StripHeader ==
  /\ ~Encrypting /\ header
  /\ Goto("crypto", "take", "loop")
  /\ Taken # NULL /\ Taken.action # "DONE"
  /\ TakeIt
  /\ chain' = ChainOf(Taken)
  /\ header' = FALSE
  /\ worked' = FALSE
  /\ UNCHANGED <<file, flagVars, hold, chainOdd, even>>

\* Save this chunk's last block in one buffer, decipher with the other.
DecryptChunk ==
  /\ ~Encrypting /\ ~header
  /\ Goto("crypto", "take", "put")
  /\ Taken # NULL /\ Taken.action # "DONE"
  /\ TakeIt
  /\ worked' = TRUE
  /\ IF Fresh \/ ~worked
     THEN /\ Keep("crypto", Decipher(Taken, IF even THEN chain ELSE chainOdd))
          /\ chainOdd' = IF even THEN ChainOf(Taken) ELSE chainOdd
          /\ chain' = IF even THEN chain ELSE ChainOf(Taken)
          /\ even' = ~even
     ELSE UNCHANGED <<hold, chain, chainOdd, even>>
  /\ UNCHANGED <<file, flagVars, header>>

\* A slip: a chunk that finds no room is forgotten.
CryptoPutDrops ==
  /\ Goto("crypto", "put", "loop")
  /\ IF queueIsFull(CryptoOut) THEN UNCHANGED queue
     ELSE Put(CryptoOut, [hold["crypto"] EXCEPT !.action = "GEN_MAC"])
  /\ Keep("crypto", NULL)
  /\ UNCHANGED <<file, flagVars, cryptoVars>>

\* Pass the chunk on if there is room, or come back to it in the next turn.
CryptoPut ==
  /\ Goto("crypto", "put", "loop")
  /\ IF queueIsFull(CryptoOut)
     THEN UNCHANGED <<queue, hold>>
     ELSE /\ Put(CryptoOut, IF Encrypting
                            THEN [hold["crypto"] EXCEPT !.action = "GEN_MAC"]
                            ELSE hold["crypto"])
          /\ Keep("crypto", NULL)
  /\ UNCHANGED <<file, flagVars, cryptoVars>>

CryptoDone ==
  /\ Goto("crypto", "flush", "exit")
  /\ Put(CryptoOut, DONE)
  /\ UNCHANGED <<file, flagVars, hold, cryptoVars>>

Crypto ==
  \/ CryptoStart \/ CryptoTurn \/ CryptoNothing \/ CryptoSeesDone
  \/ EncryptHeader \/ EncryptChunk \/ StripHeader \/ DecryptChunk
  \/ CryptoPut \/ CryptoDone
=============================================================================
