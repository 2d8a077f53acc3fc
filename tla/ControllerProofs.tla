-------------------------- MODULE ControllerProofs ---------------------------
(***************************************************************************)
(* What one run does to its files: first the types of Controller's state,  *)
(* with the lemmas on sizes, chunks and queues; then what an encryption    *)
(* does and what a decryption does; then the safety properties of          *)
(* Controller as theorems of its specification, and the proof that a run   *)
(* implements OneRun.                                                      *)
(***************************************************************************)
EXTENDS Controller, TLAPS

-----------------------------------------------------------------------------
(* The types of one run's variables, as an invariant that every step preserves: *)
(* Controller!TypeOK with what it needs to be inductive.                         *)

\* A chunk in a queue or in a thread's hands.  Only a MAC carries a digest.
Good == {c \in Chunks : ChunkOK(c) /\ (c.action # "MAC" => c.digest = <<>>)}

\* What queueFileForEncrypt produces, and what encryptQueue works on.
Raw == {c \in Good : c.seal = <<>> /\ c.action # "MAC"}
NoMac == {c \in Good : c.action # "MAC"}

ReadPcs == {"start", "loop", "queue", "flush", "exit"}
CryptoPcs == {"start", "loop", "take", "put", "flush", "exit"}
MacPcs == IF Encrypting
          THEN {"start", "cond", "get", "put", "append", "flush", "exit"}
          ELSE {"start", "auth", "take", "hash", "pass", "final", "stored",
                "fetch", "verdict", "flush", "exit"}
WritePcs == {"start", "loop", "take", "write", "finish", "rename", "stop", "exit"}
MainPcs == {"start", "bar", "join", "over", "crashed"}

Pcs == ReadPcs \cup CryptoPcs \cup MacPcs \cup WritePcs \cup MainPcs

\* The threads exist, or the process died under them.
Launched == pc["main"] \in {"bar", "join", "crashed"}

FlagsTyped ==
  /\ file \in Files
  /\ running \in BOOLEAN /\ valid \in BOOLEAN
  /\ error \in Errors \cup {"none"}
  /\ newFileSize \in {0, file.promised}

PcsTyped ==
  /\ pc \in [Threads \cup {"main"} -> Pcs]
  /\ pc["read"] \in ReadPcs /\ pc["crypto"] \in CryptoPcs
  /\ pc["mac"] \in MacPcs /\ pc["write"] \in WritePcs
  /\ pc["main"] \in MainPcs
  /\ Launched => ~TooSmall

QueuesTyped ==
  /\ queue \in [Queues -> Seq(Good)]
  /\ \A q \in Queues : Len(queue[q]) <= Capacity

HoldsTyped ==
  /\ hold \in [Threads -> Good \cup {NULL}]
  /\ pc["read"] = "queue" => hold["read"] # NULL
  /\ pc["crypto"] = "put" => hold["crypto"] # NULL
  /\ pc["mac"] \in {"put", "hash", "pass"} => hold["mac"] # NULL
  /\ pc["mac"] = "hash" => hold["mac"].action # "MAC"
  /\ pc["write"] = "write" => hold["write"] # NULL

ReadTyped ==
  /\ origFileSize \in {0, file.size} /\ bytesRead \in 0 .. origFileSize
  /\ pc["read"] = "start" => origFileSize = 0
  /\ ~Encrypting => \/ bytesRead = 0
                    \/ bytesRead >= HeaderSize /\ bytesRead + Block <= file.size
                    \/ bytesRead = file.size

CryptoTyped ==
  /\ header \in BOOLEAN /\ worked \in BOOLEAN /\ even \in BOOLEAN
  /\ chain \in Int /\ chainOdd \in Int

MacTyped ==
  /\ digest \in Seq(Pieces)
  /\ macHeader \in BOOLEAN

WriteTyped ==
  /\ bytesWritten \in Nat
  /\ ~Encrypting => bytesWritten <= newFileSize
  /\ temp \in Seq(Chunks) \cup {NULL}
  /\ target \in Seq(Chunks) \cup {NULL}
  /\ pc["write"] \in {"loop", "take", "write"} => temp # NULL

\* Nothing is enciphered twice: what is to be enciphered is raw, the header
\* passes while the queue behind is empty, and a chunk that is kept for the
\* next turn is marked.
OnceOnly ==
  Encrypting =>
    /\ queue["crypto"] \in Seq(Raw)
    /\ hold["read"] \in Raw \cup {NULL}
    /\ hold["crypto"] \in NoMac \cup {NULL}
    /\ header => hold["crypto"] = NULL
    /\ header /\ pc["crypto"] \in {"start", "loop", "take"} => queue["mac"] = <<>>
    /\ hold["crypto"] # NULL /\ ~worked => pc["crypto"] = "put" /\ queue["mac"] = <<>>

TypeInv ==
  /\ FlagsTyped /\ PcsTyped /\ QueuesTyped /\ HoldsTyped
  /\ ReadTyped /\ CryptoTyped /\ MacTyped /\ WriteTyped
  /\ OnceOnly

-----------------------------------------------------------------------------
(* Arithmetic of chunks and blocks *)

\* Division by the chunk size.
LEMMA DivFacts ==
  ASSUME NEW M \in Nat \ {0}, NEW n \in Nat
  PROVE  /\ n \div M \in Nat
         /\ (n \div M) * M <= n
         /\ n < (n \div M) * M + M
  BY Z3

\* The number of chunks a file is cut into.
LEMMA DataChunksFacts ==
  ASSUME NEW n \in Nat
  PROVE  /\ DataChunks(n) \in Nat
         /\ n <= DataChunks(n) * MaxChunk
         /\ DataChunks(n) * MaxChunk < n + MaxChunk
<1>1. n + MaxChunk - 1 \in Nat
  BY PipelineAssumption
<1>. QED
  BY <1>1, DivFacts, PipelineAssumption DEF DataChunks

\* Chunks are counted by the multiples of their size.
LEMMA MulLess ==
  ASSUME NEW a \in Int, NEW b \in Int, a * MaxChunk < b * MaxChunk + MaxChunk
  PROVE  a <= b
<1>1. CASE a >= b + 1
  <2>1. a * MaxChunk >= (b + 1) * MaxChunk
    BY PipelineAssumption, <1>1
  <2>. QED
    BY <2>1, PipelineAssumption
<1>. QED
  BY <1>1

LEMMA DataChunksUnique ==
  ASSUME NEW n \in Nat, NEW k \in Int, n <= k * MaxChunk, k * MaxChunk < n + MaxChunk
  PROVE  DataChunks(n) = k
<1>. DEFINE d == DataChunks(n)
<1>1. d \in Nat /\ n <= d * MaxChunk /\ d * MaxChunk < n + MaxChunk
  BY DataChunksFacts
<1>2. d * MaxChunk < k * MaxChunk + MaxChunk /\ k * MaxChunk < d * MaxChunk + MaxChunk
  BY <1>1, PipelineAssumption
<1>3. d <= k /\ k <= d
  BY <1>1, <1>2, MulLess
<1>. QED
  BY <1>1, <1>3

\* Padding fills the last block.
LEMMA PadFacts ==
  ASSUME NEW n \in Nat
  PROVE  /\ getPadSize(n) \in Nat
         /\ n <= getPadSize(n)
         /\ getPadSize(n) < n + Block
<1>1. n + Block - 1 \in Nat
  BY PipelineAssumption
<1>. QED
  BY <1>1, DivFacts, PipelineAssumption DEF getPadSize

\* The file a run starts from.
LEMMA FileFacts ==
  ASSUME file \in Files
  PROVE  /\ file.plain \in Nat /\ file.promised \in Nat /\ file.size \in Nat
         /\ file.damage # "iv" => file.promised = file.plain
         /\ file.damage \in {"intact", "header", "iv", "body", "extended", "shortened"}
         /\ Encrypting => file.size = file.plain /\ file.damage = "intact"
         /\ ~Encrypting =>
              file.size = EncryptedSize(file.plain)
                            + (CASE file.damage = "extended" -> MaxChunk
                                 [] file.damage = "shortened" -> -Block
                                 [] OTHER -> 0)
<1>1. CASE Encrypting
  BY <1>1, PipelineAssumption DEF Files
<1>2. CASE ~Encrypting
  <2>1. PICK n \in PlainSizes, p \in PlainSizes \cup Promises, d \in Damages :
          file = [plain |-> n, promised |-> p, damage |-> d,
                  size |-> EncryptedSize(n) + (CASE d = "extended" -> MaxChunk
                                                 [] d = "shortened" -> -Block
                                                 [] OTHER -> 0)]
    BY <1>2 DEF Files
  <2>0. file.damage # "iv" => file.promised = file.plain
    BY <1>2 DEF Files
  <2>2. n \in Nat /\ p \in Nat /\ getPadSize(n) \in Nat
    BY PipelineAssumption, PadFacts
  <2>. QED
    BY <1>2, <2>0, <2>1, <2>2, PipelineAssumption DEF EncryptedSize, HeaderSize
<1>. QED
  BY <1>1, <1>2

-----------------------------------------------------------------------------
(* Chunks *)

LEMMA ChunkType ==
  ASSUME NEW a \in Actions, NEW id \in Int, NEW seal \in Seq(Int),
         NEW d \in Seq(Pieces), NEW size \in Int
  PROVE  /\ Chunk(a, id, seal, d, size) \in Chunks
         /\ Chunk(a, id, seal, d, size).action = a
         /\ Chunk(a, id, seal, d, size).id = id
         /\ Chunk(a, id, seal, d, size).seal = seal
         /\ Chunk(a, id, seal, d, size).digest = d
         /\ Chunk(a, id, seal, d, size).size = size
  BY DEF Chunk, Chunks

\* What a chunk's handlers change of it, and what they leave.
LEMMA ChangeType ==
  ASSUME NEW c \in Chunks, NEW a \in Actions, NEW seal \in Seq(Int), NEW size \in Int
  PROVE  /\ [c EXCEPT !.action = a] \in Chunks
         /\ [c EXCEPT !.action = a].action = a
         /\ [c EXCEPT !.action = a].id = c.id
         /\ [c EXCEPT !.action = a].seal = c.seal
         /\ [c EXCEPT !.action = a].digest = c.digest
         /\ [c EXCEPT !.action = a].size = c.size
         /\ [c EXCEPT !.seal = seal] \in Chunks
         /\ [c EXCEPT !.seal = seal].action = c.action
         /\ [c EXCEPT !.seal = seal].id = c.id
         /\ [c EXCEPT !.seal = seal].seal = seal
         /\ [c EXCEPT !.seal = seal].digest = c.digest
         /\ [c EXCEPT !.seal = seal].size = c.size
         /\ [c EXCEPT !.size = size] \in Chunks
  BY DEF Chunks

LEMMA ChunkFields ==
  ASSUME NEW c \in Chunks
  PROVE  /\ c.action \in Actions /\ c.id \in Int /\ c.seal \in Seq(Int)
         /\ c.digest \in Seq(Pieces) /\ c.size \in Int
         /\ c # NULL
  BY NullAssumption DEF Chunks

\* A file that exists is not NULL.
LEMMA FileNotNull ==
  /\ \A s \in Seq(Chunks) : s # NULL
  /\ <<>> \in Seq(Chunks) /\ <<>> # NULL
<1>1. <<>> \in Seq(Chunks)
  OBVIOUS
<1>. QED
  BY <1>1, NullAssumption

LEMMA GoodFacts ==
  /\ \A c \in Good : c \in Chunks /\ ChunkOK(c) /\ c # NULL
  /\ Raw \subseteq NoMac /\ NoMac \subseteq Good
  /\ \A c \in NoMac : c.digest = <<>>
  /\ \A c \in Raw : c.seal = <<>>
  /\ NULL \notin Good
  BY ChunkFields DEF Good, Raw, NoMac

LEMMA GoodChunk ==
  ASSUME NEW a \in Actions \ {"data"},
         NEW id \in {HeaderId, MacId, NoId} \cup 1 .. DataChunks(file.size), id \in Int,
         NEW seal \in Seq(Int), Len(seal) <= 1,
         NEW d \in Seq(Pieces), a # "MAC" => d = <<>>,
         NEW size \in 0 .. HeaderSize + MaxChunk, size \in Int
  PROVE  Chunk(a, id, seal, d, size) \in Good
<1>1. Chunk(a, id, seal, d, size) \in Chunks
  BY DEF Chunk, Chunks
<1>2. ChunkOK(Chunk(a, id, seal, d, size))
  BY DEF Chunk, ChunkOK, Actions
<1>3. a # "MAC" => Chunk(a, id, seal, d, size).digest = <<>>
  BY DEF Chunk
<1>4. Chunk(a, id, seal, d, size).action = a
  BY DEF Chunk
<1>. QED
  BY <1>1, <1>2, <1>3, <1>4 DEF Good

\* What a chunk must be depends on the file alone.
LEMMA SameFile ==
  ASSUME UNCHANGED file
  PROVE  /\ Good' = Good /\ Raw' = Raw /\ NoMac' = NoMac
         /\ (TooSmall <=> TooSmall')
  BY DEF Good, Raw, NoMac, ChunkOK, TooSmall

\* DONE can go into every queue.
LEMMA DoneType ==
  DONE \in Raw /\ DONE \in NoMac /\ DONE \in Good /\ DONE.action = "DONE"
<1>. DEFINE e == <<>>
<1>1. e \in Seq(Int) /\ e \in Seq(Pieces) /\ Len(e) = 0
  OBVIOUS
<1>2. DONE \in Chunks /\ DONE.action = "DONE" /\ DONE.id = NoId
        /\ DONE.seal = <<>> /\ DONE.digest = <<>> /\ DONE.size = 0
  <2>1. "DONE" \in Actions /\ NoId \in Int /\ 0 \in Int
    BY DEF Actions, NoId
  <2>. QED
    BY <1>1, <2>1 DEF DONE, Chunk, Chunks
<1>3. ChunkOK(DONE)
  BY <1>2, PipelineAssumption DEF ChunkOK, HeaderSize
<1>. QED
  BY <1>2, <1>3 DEF Good, Raw, NoMac

\* Enciphering what was not enciphered before, or deciphering, leaves at most
\* one seal.
LEMMA CipherType ==
  /\ \A c \in Raw, k \in Int : Encipher(c, k) \in NoMac
  /\ \A c \in Good, k \in Int : Decipher(c, k) \in Good
  /\ \A c \in Good : ChainOf(c) \in Int
<1>1. ASSUME NEW c \in Raw, NEW k \in Int PROVE Encipher(c, k) \in NoMac
  <2>1. c \in Chunks /\ ChunkOK(c) /\ c.seal = <<>> /\ c.action # "MAC" /\ c.digest = <<>>
    BY DEF Raw, Good
  <2>. DEFINE seal == <<k>>
  <2>2. seal \in Seq(Int) /\ Len(seal) <= 1 /\ seal = Append(c.seal, k)
    BY <2>1
  <2>. HIDE DEF seal
  <2>3. /\ Encipher(c, k) = [c EXCEPT !.seal = seal]
        /\ Encipher(c, k) \in Chunks
        /\ Encipher(c, k).action = c.action /\ Encipher(c, k).id = c.id
        /\ Encipher(c, k).seal = seal /\ Encipher(c, k).digest = c.digest
        /\ Encipher(c, k).size = c.size
    BY <2>1, <2>2 DEF Encipher, Chunks
  <2>. QED
    BY <2>1, <2>2, <2>3 DEF NoMac, Good, ChunkOK
<1>2. ASSUME NEW c \in Good, NEW k \in Int PROVE Decipher(c, k) \in Good
  <2>1. c \in Chunks /\ ChunkOK(c) /\ (c.action # "MAC" => c.digest = <<>>)
    BY DEF Good
  <2>. DEFINE seal == IF c.seal = <<k>> THEN <<>> ELSE <<Garbled>>
  <2>2. seal \in Seq(Int) /\ Len(seal) <= 1
    BY DEF Garbled
  <2>3. Decipher(c, k) = [c EXCEPT !.seal = seal]
    BY DEF Decipher
  <2>. HIDE DEF seal
  <2>4. /\ Decipher(c, k) \in Chunks
        /\ Decipher(c, k).action = c.action /\ Decipher(c, k).id = c.id
        /\ Decipher(c, k).seal = seal /\ Decipher(c, k).digest = c.digest
        /\ Decipher(c, k).size = c.size
    BY <2>1, <2>2, <2>3 DEF Chunks
  <2>. QED
    BY <2>1, <2>2, <2>4 DEF Good, ChunkOK
<1>3. ASSUME NEW c \in Good PROVE ChainOf(c) \in Int
  BY ChunkFields, GoodFacts DEF ChainOf, Garbled
<1>. QED
  BY <1>1, <1>2, <1>3

\* Relabelling a chunk for the next thread.
LEMMA ActionType ==
  ASSUME NEW c \in NoMac, NEW a \in Actions \ {"data", "MAC"}
  PROVE  [c EXCEPT !.action = a] \in NoMac
<1>1. c \in Chunks /\ ChunkOK(c) /\ c.digest = <<>>
  BY DEF NoMac, Good
<1>. DEFINE d == [c EXCEPT !.action = a]
<1>2. /\ d \in Chunks /\ d.action = a /\ d.id = c.id /\ d.seal = c.seal
      /\ d.digest = c.digest /\ d.size = c.size
  BY <1>1 DEF Chunks
<1>. HIDE DEF d
<1>3. d \in NoMac
  BY <1>1, <1>2 DEF NoMac, Good, ChunkOK, Actions
<1>. QED
  BY <1>3 DEF d

\* What is hashed and what is written.
LEMMA DataType ==
  /\ \A c \in NoMac : Data(c) \in Pieces
  /\ \A c \in Chunks, n \in Int : [Data(c) EXCEPT !.size = n] \in Chunks
<1>1. ASSUME NEW c \in NoMac PROVE Data(c) \in Pieces
  <2>1. c \in Chunks /\ c.digest = <<>>
    BY DEF NoMac, Good
  <2>. QED
    BY <2>1 DEF Data, Chunks, Pieces, Actions
<1>2. ASSUME NEW c \in Chunks, NEW n \in Int PROVE [Data(c) EXCEPT !.size = n] \in Chunks
  BY DEF Data, Chunks, Actions
<1>. QED
  BY <1>1, <1>2

-----------------------------------------------------------------------------
(* Queues *)

\* Putting a chunk into one queue.
LEMMA PutType ==
  ASSUME NEW S, NEW f \in [Queues -> Seq(S)], NEW q \in Queues, NEW c \in S
  PROVE  /\ [f EXCEPT ![q] = Append(@, c)] \in [Queues -> Seq(S)]
         /\ [f EXCEPT ![q] = Append(@, c)][q] = Append(f[q], c)
         /\ Len([f EXCEPT ![q] = Append(@, c)][q]) = Len(f[q]) + 1
         /\ \A p \in Queues \ {q} : [f EXCEPT ![q] = Append(@, c)][p] = f[p]
  OBVIOUS

\* Taking the chunk in front of one queue.
LEMMA TakeType ==
  ASSUME NEW S, NEW f \in [Queues -> Seq(S)], NEW q \in Queues, f[q] # <<>>
  PROVE  /\ [f EXCEPT ![q] = Tail(@)] \in [Queues -> Seq(S)]
         /\ [f EXCEPT ![q] = Tail(@)][q] = Tail(f[q])
         /\ Len([f EXCEPT ![q] = Tail(@)][q]) = Len(f[q]) - 1
         /\ Head(f[q]) \in S
         /\ \A p \in Queues \ {q} : [f EXCEPT ![q] = Tail(@)][p] = f[p]
  OBVIOUS

\* The front of a queue, if it has one.
LEMMA FrontType ==
  ASSUME TypeInv, NEW q \in Queues
  PROVE  /\ front(q) = NULL <=> queue[q] = <<>>
         /\ front(q) # NULL => /\ front(q) = Head(queue[q])
                               /\ front(q) \in Good
                               /\ queue[q] # <<>>
                               /\ Len(queue[q]) \in 1 .. Capacity
<1>1. queue[q] \in Seq(Good) /\ NULL \notin Good
  BY GoodFacts DEF TypeInv, QueuesTyped
<1>2. Len(queue[q]) <= Capacity /\ Capacity \in Nat
  BY PipelineAssumption DEF TypeInv, QueuesTyped
<1>. QED
  BY <1>1, <1>2 DEF front

-----------------------------------------------------------------------------
(* Queues in the order of a list of items *)

\* q holds the items from number base on.
Holds(q, items, base) == \A i \in 1 .. Len(q) : q[i] = items[base + i - 1]

\* The chunk a thread holds is one it has taken and not passed on.
HeldCount(t) == IF hold[t] = NULL THEN 0 ELSE 1

\* What a thread's step leaves alone for the others.
OthersKeep(t) ==
  /\ \A u \in Threads \ {t} : pc'[u] = pc[u] /\ hold'[u] = hold[u]
  /\ pc'["main"] \in {pc["main"], "crashed"}
  /\ UNCHANGED status
  /\ error' = error \/ error' # "none"

\* Two sequences of the same length are compared element by element.
LEMMA SeqEqual ==
  ASSUME NEW S, NEW s \in Seq(S), NEW t \in Seq(S), Len(s) = Len(t),
         \A i \in 1 .. Len(s) : s[i] = t[i]
  PROVE  s = t
  OBVIOUS

\* The next item put at the end.
LEMMA HoldsPut ==
  ASSUME NEW S, NEW q \in Seq(S), NEW items, NEW base \in Int, NEW c \in S,
         Holds(q, items, base), c = items[base + Len(q)]
  PROVE  Holds(Append(q, c), items, base)
<1>1. /\ Len(Append(q, c)) = Len(q) + 1 /\ Len(q) \in Nat
      /\ \A i \in 1 .. Len(q) : Append(q, c)[i] = q[i]
      /\ Append(q, c)[Len(q) + 1] = c
  OBVIOUS
<1>2. ASSUME NEW i \in 1 .. Len(q) + 1 PROVE Append(q, c)[i] = items[base + i - 1]
  <2>1. CASE i = Len(q) + 1
    <3>1. base + i - 1 = base + Len(q)
      BY <1>1, <2>1
    <3>. QED
      BY <1>1, <2>1, <3>1
  <2>2. CASE i \in 1 .. Len(q)
    BY <1>1, <2>2 DEF Holds
  <2>. QED
    BY <1>1, <2>1, <2>2
<1>. QED
  BY <1>1, <1>2 DEF Holds

\* The item in front taken.
LEMMA HoldsTake ==
  ASSUME NEW S, NEW q \in Seq(S), NEW items, NEW base \in Int, q # <<>>,
         Holds(q, items, base)
  PROVE  /\ Head(q) = items[base]
         /\ Holds(Tail(q), items, base + 1)
<1>1. /\ Len(q) \in Nat \ {0} /\ Len(Tail(q)) = Len(q) - 1 /\ Head(q) = q[1]
      /\ \A i \in 1 .. Len(q) - 1 : Tail(q)[i] = q[i + 1]
  OBVIOUS
<1>2. base + 1 - 1 = base
  OBVIOUS
<1>3. ASSUME NEW i \in 1 .. Len(q) - 1 PROVE Tail(q)[i] = items[base + 1 + i - 1]
  <2>1. i + 1 \in 1 .. Len(q) /\ base + (i + 1) - 1 = base + 1 + i - 1
    BY <1>1
  <2>. QED
    BY <1>1, <2>1 DEF Holds
<1>. QED
  BY <1>1, <1>2, <1>3 DEF Holds

-----------------------------------------------------------------------------
(* The data chunks on their way through a run, in order *)

\* How many data chunks the first x items are, when item 0 is the header and
\* the items from 1 to n are the data.
DataBefore(x, n) == IF x = 0 THEN 0 ELSE IF x - 1 < n THEN x - 1 ELSE n

Numbered(items, n) == \A k \in Nat : IF k \in 1 .. n THEN items[k].id = k ELSE items[k].id < 1

LEMMA DataBeforeFacts ==
  ASSUME NEW n \in Nat, NEW x \in Nat, NEW y \in Nat, x <= y
  PROVE  /\ DataBefore(x, n) \in 0 .. n /\ DataBefore(y, n) \in 0 .. n
         /\ DataBefore(x, n) <= DataBefore(y, n)
         /\ \A k \in Nat : k \in DataBefore(x, n) + 1 .. DataBefore(y, n)
                             <=> k \in 1 .. n /\ k >= x /\ k < y
  BY DEF DataBefore

\* One stretch of the way behind another.
LEMMA RunsJoin ==
  ASSUME NEW s \in Seq(Chunks), NEW t \in Seq(Chunks),
         NEW a \in Nat, NEW b \in Nat, NEW c \in Nat, a <= b, b <= c,
         Runs(s, a, b), Runs(t, b, c)
  PROVE  /\ s \o t \in Seq(Chunks)
         /\ Runs(s \o t, a, c)
<1>. DEFINE u == s \o t
<1>1. /\ u \in Seq(Chunks) /\ Len(s) \in Nat /\ Len(t) \in Nat /\ Len(u) = Len(s) + Len(t)
      /\ DOMAIN s = 1 .. Len(s) /\ DOMAIN t = 1 .. Len(t) /\ DOMAIN u = 1 .. Len(u)
      /\ \A i \in 1 .. Len(s) : u[i] = s[i]
      /\ \A i \in 1 .. Len(t) : u[Len(s) + i] = t[i]
  OBVIOUS
<1>2. \A i \in 1 .. Len(u) : i \in 1 .. Len(s) \/ (i - Len(s) \in 1 .. Len(t) /\ u[i] = t[i - Len(s)])
  <2>. SUFFICES ASSUME NEW i \in 1 .. Len(u), i \notin 1 .. Len(s)
                PROVE  i - Len(s) \in 1 .. Len(t) /\ u[i] = t[i - Len(s)]
    OBVIOUS
  <2>1. i - Len(s) \in 1 .. Len(t) /\ Len(s) + (i - Len(s)) = i
    BY <1>1
  <2>. QED
    BY <1>1, <2>1
<1>3. /\ \A i \in 1 .. Len(s) : s[i] \in Chunks
      /\ \A i \in 1 .. Len(t) : t[i] \in Chunks
  OBVIOUS
<1>4. /\ \A i \in 1 .. Len(s) : s[i].id \in Int
      /\ \A i \in 1 .. Len(t) : t[i].id \in Int
  BY <1>3, ChunkFields
<1>. HIDE DEF u
<1>8. /\ \A i \in 1 .. Len(s) : s[i].id >= 1 => s[i].id \in a + 1 .. b
      /\ \A k \in a + 1 .. b : \E i \in 1 .. Len(s) : s[i].id = k
      /\ \A i \in 1 .. Len(t) : t[i].id >= 1 => t[i].id \in b + 1 .. c
      /\ \A k \in b + 1 .. c : \E i \in 1 .. Len(t) : t[i].id = k
  BY <1>1, Zenon DEF Runs
<1>5. ASSUME NEW i \in DOMAIN u, u[i].id >= 1 PROVE u[i].id \in a + 1 .. c
  <2>1. CASE i \in 1 .. Len(s)
    BY <1>1, <1>5, <1>8, <2>1
  <2>2. CASE i - Len(s) \in 1 .. Len(t) /\ u[i] = t[i - Len(s)]
    BY <1>5, <1>8, <2>2
  <2>. QED
    BY <1>1, <1>2, <2>1, <2>2
<1>6. ASSUME NEW k \in a + 1 .. c PROVE \E i \in DOMAIN u : u[i].id = k
  <2>1. CASE k <= b
    <3>1. k \in a + 1 .. b
      BY <2>1
    <3>2. PICK i \in 1 .. Len(s) : s[i].id = k
      BY <1>8, <3>1, Zenon
    <3>. QED
      BY <1>1, <3>2
  <2>2. CASE k > b
    <3>1. k \in b + 1 .. c
      BY <2>2
    <3>2. PICK i \in 1 .. Len(t) : t[i].id = k
      BY <1>8, <3>1, Zenon
    <3>3. Len(s) + i \in 1 .. Len(u)
      BY <1>1
    <3>. QED
      BY <1>1, <3>2, <3>3
  <2>. QED
    BY <2>1, <2>2
<1>7. ASSUME NEW i \in DOMAIN u, NEW j \in DOMAIN u, i < j, u[i].id >= 1, u[j].id >= 1
      PROVE  u[i].id < u[j].id
  <2>1. CASE j \in 1 .. Len(s)
    <3>1. i \in 1 .. Len(s)
      BY <1>1, <1>7, <2>1
    <3>2. i \in DOMAIN s /\ j \in DOMAIN s /\ s[i].id >= 1 /\ s[j].id >= 1
      BY <1>1, <1>7, <2>1, <3>1
    <3>3. s[i].id < s[j].id
      BY <1>7, <3>2, Zenon DEF Runs
    <3>. QED
      BY <1>1, <2>1, <3>1, <3>3
  <2>2. CASE i \notin 1 .. Len(s)
    <3>1. j \notin 1 .. Len(s)
      BY <1>1, <1>7, <2>2
    <3>2. /\ i - Len(s) \in 1 .. Len(t) /\ u[i] = t[i - Len(s)]
          /\ j - Len(s) \in 1 .. Len(t) /\ u[j] = t[j - Len(s)]
      BY <1>1, <1>2, <2>2, <3>1
    <3>3. i - Len(s) < j - Len(s)
      BY <1>1, <1>7
    <3>4. /\ i - Len(s) \in DOMAIN t /\ j - Len(s) \in DOMAIN t
          /\ t[i - Len(s)].id >= 1 /\ t[j - Len(s)].id >= 1
      BY <1>1, <1>7, <3>2
    <3>5. t[i - Len(s)].id < t[j - Len(s)].id
      BY <3>3, <3>4, Zenon DEF Runs
    <3>. QED
      BY <3>2, <3>5
  <2>3. CASE i \in 1 .. Len(s) /\ j \notin 1 .. Len(s)
    <3>1. j - Len(s) \in 1 .. Len(t) /\ u[j] = t[j - Len(s)] /\ u[i] = s[i]
      BY <1>1, <1>2, <2>3
    <3>2. u[i].id \in a + 1 .. b
      BY <1>1, <1>7, <2>3, <3>1 DEF Runs
    <3>3. u[j].id \in b + 1 .. c
      BY <1>1, <1>7, <3>1 DEF Runs
    <3>. QED
      BY <3>2, <3>3
  <2>. QED
    BY <2>1, <2>2, <2>3
<1>. QED
  BY <1>1, <1>5, <1>6, <1>7 DEF Runs, u

\* What holds the items from number x to y - 1 holds the data chunks of these.
LEMMA RunsOfItems ==
  ASSUME NEW q \in Seq(Chunks), NEW items, NEW n \in Nat, NEW x \in Nat, NEW y \in Nat,
         Numbered(items, n), Holds(q, items, x), y = x + Len(q)
  PROVE  /\ DataBefore(x, n) <= DataBefore(y, n)
         /\ Runs(q, DataBefore(x, n), DataBefore(y, n))
<1>. DEFINE a == DataBefore(x, n)
            b == DataBefore(y, n)
<1>1. Len(q) \in Nat /\ DOMAIN q = 1 .. Len(q) /\ x <= y
  OBVIOUS
<1>2. /\ a \in Nat /\ b \in Nat /\ a <= b
      /\ \A k \in Nat : k \in a + 1 .. b <=> k \in 1 .. n /\ k >= x /\ k < y
  <2>1. /\ a \in 0 .. n /\ b \in 0 .. n /\ a <= b
        /\ \A k \in Nat : k \in a + 1 .. b <=> k \in 1 .. n /\ k >= x /\ k < y
    BY <1>1, DataBeforeFacts, Zenon
  <2>. QED
    BY <2>1
<1>. HIDE DEF a, b
<1>3. \A i \in 1 .. Len(q) : x + i - 1 \in Nat /\ q[i] = items[x + i - 1] /\ x + i - 1 < y /\ x + i - 1 >= x
  BY <1>1 DEF Holds
<1>4. \A i \in 1 .. Len(q) : q[i].id >= 1 => q[i].id = x + i - 1 /\ x + i - 1 \in 1 .. n
  <2>. SUFFICES ASSUME NEW i \in 1 .. Len(q), q[i].id >= 1
                PROVE  q[i].id = x + i - 1 /\ x + i - 1 \in 1 .. n
    OBVIOUS
  <2>. DEFINE k == x + i - 1
  <2>1. k \in Nat /\ q[i] = items[k]
    BY <1>3
  <2>2. q[i].id \in Int
    BY ChunkFields
  <2>. HIDE DEF k
  <2>3. k \in 1 .. n /\ q[i].id = k
    BY <2>1, <2>2 DEF Numbered
  <2>. QED
    BY <2>3 DEF k
<1>5. \A i \in DOMAIN q : q[i].id >= 1 => q[i].id \in a + 1 .. b
  BY <1>1, <1>2, <1>3, <1>4
<1>6. ASSUME NEW k \in a + 1 .. b PROVE \E i \in DOMAIN q : q[i].id = k
  <2>1. k \in Nat /\ k \in 1 .. n /\ k >= x /\ k < y
    BY <1>2
  <2>. DEFINE i == k - x + 1
  <2>2. i \in 1 .. Len(q) /\ x + i - 1 = k
    BY <1>1, <2>1
  <2>3. q[i] = items[k]
    BY <1>3, <2>2
  <2>4. items[k].id = k
    BY <2>1 DEF Numbered
  <2>. QED
    BY <1>1, <2>2, <2>3, <2>4
<1>7. \A i, j \in DOMAIN q : i < j /\ q[i].id >= 1 /\ q[j].id >= 1 => q[i].id < q[j].id
  BY <1>1, <1>4
<1>. QED
  BY <1>2, <1>5, <1>6, <1>7 DEF Runs, a, b

\* The same of a thread that holds item x, or none and there is nothing between.
LEMMA RunsHeld ==
  ASSUME TypeInv, NEW t \in Threads, NEW items, NEW n \in Nat, NEW x \in Nat, NEW y \in Nat,
         Numbered(items, n),
         \/ hold[t] = NULL /\ DataBefore(x, n) = DataBefore(y, n)
         \/ hold[t] # NULL /\ hold[t] = items[x] /\ y = x + 1
  PROVE  /\ HeldBy(t) \in Seq(Chunks)
         /\ DataBefore(x, n) <= DataBefore(y, n)
         /\ Runs(HeldBy(t), DataBefore(x, n), DataBefore(y, n))
<1>1. CASE hold[t] = NULL /\ DataBefore(x, n) = DataBefore(y, n)
  <2>1. HeldBy(t) = <<>>
    BY <1>1 DEF HeldBy
  <2>2. DataBefore(x, n) \in Nat
    BY DEF DataBefore
  <2>. QED
    BY <1>1, <2>1, <2>2 DEF Runs
<1>2. CASE hold[t] # NULL /\ hold[t] = items[x] /\ y = x + 1
  <2>. DEFINE c == hold[t]
  <2>1. c \in Chunks /\ HeldBy(t) = <<c>>
    BY <1>2, GoodFacts DEF HeldBy, TypeInv, HoldsTyped
  <2>. HIDE DEF c
  <2>2. <<c>> \in Seq(Chunks) /\ Len(<<c>>) = 1 /\ <<c>>[1] = c /\ x + 1 - 1 = x
    BY <2>1
  <2>3. Holds(<<c>>, items, x)
    BY <1>2, <2>2 DEF Holds, c
  <2>. QED
    BY <1>2, <2>1, <2>2, <2>3, RunsOfItems
<1>. QED
  BY <1>1, <1>2

LEMMA HeldType ==
  ASSUME TypeInv, NEW t \in Threads
  PROVE  HeldBy(t) \in Seq(Chunks)
<1>1. hold[t] # NULL => hold[t] \in Chunks
  BY GoodFacts DEF TypeInv, HoldsTyped
<1>. QED
  BY <1>1 DEF HeldBy

\* A thread and the queue before it.
LEMMA RunsAt ==
  ASSUME TypeInv, NEW t \in Queues, NEW a \in Nat, NEW b \in Nat, NEW c \in Nat, a <= b, b <= c,
         Runs(HeldBy(t), a, b), Runs(queue[t], b, c)
  PROVE  /\ At(t) \in Seq(Chunks)
         /\ Runs(At(t), a, c)
<1>1. queue[t] \in Seq(Good) /\ Good \subseteq Chunks
  BY GoodFacts DEF TypeInv, QueuesTyped
<1>2. queue[t] \in Seq(Chunks)
  BY <1>1
<1>3. HeldBy(t) \in Seq(Chunks)
  BY HeldType DEF Threads, Queues
<1>4. /\ HeldBy(t) \o queue[t] \in Seq(Chunks)
      /\ Runs(HeldBy(t) \o queue[t], a, c)
  BY <1>2, <1>3, RunsJoin
<1>. QED
  BY <1>4 DEF At

\* The way in each mode: the threads behind the write thread, last one first.
Upstream == IF Encrypting THEN <<"mac", "crypto">> ELSE <<"crypto", "mac">>

\* d[i] data chunks are in the i stretches of the way nearest to the file.
RunsApart(d) ==
  /\ d \in [0 .. 8 -> Nat] /\ d[0] = 0
  /\ d[0] <= d[1] /\ d[1] <= d[2] /\ d[2] <= d[3] /\ d[3] <= d[4]
  /\ d[4] <= d[5] /\ d[5] <= d[6] /\ d[6] <= d[7] /\ d[7] <= d[8]
  /\ Runs(temp, d[0], d[1])
  /\ Runs(HeldBy("write"), d[1], d[2]) /\ Runs(queue["write"], d[2], d[3])
  /\ Runs(HeldBy(Upstream[1]), d[3], d[4]) /\ Runs(queue[Upstream[1]], d[4], d[5])
  /\ Runs(HeldBy(Upstream[2]), d[5], d[6]) /\ Runs(queue[Upstream[2]], d[6], d[7])
  /\ Runs(HeldBy("read"), d[7], d[8])

\* The whole way, from the temporary file over the threads and queues back to
\* the reader.
LEMMA RunsOnTheWay ==
  ASSUME TypeInv, temp \in Seq(Chunks), NEW d, RunsApart(d)
  PROVE  Runs(OnTheWay, 0, d[8])
<1>. DEFINE f == Upstream[1]
            g == Upstream[2]
            d1 == d[1]
            d2 == d[2]
            d3 == d[3]
            d4 == d[4]
            d5 == d[5]
            d6 == d[6]
            d7 == d[7]
            d8 == d[8]
<1>1. {"write", f, g} \subseteq Queues /\ "read" \in Threads
  BY DEF Threads, Queues, Upstream
<1>2. HeldBy("read") \in Seq(Chunks)
  BY <1>1, HeldType
<1>3. /\ d1 \in Nat /\ d2 \in Nat /\ d3 \in Nat /\ d4 \in Nat
      /\ d5 \in Nat /\ d6 \in Nat /\ d7 \in Nat /\ d8 \in Nat
      /\ 0 <= d1 /\ d1 <= d2 /\ d2 <= d3 /\ d3 <= d4 /\ d4 <= d5 /\ d5 <= d6 /\ d6 <= d7 /\ d7 <= d8
  BY DEF RunsApart
<1>4. /\ Runs(temp, 0, d1)
      /\ Runs(HeldBy("write"), d1, d2) /\ Runs(queue["write"], d2, d3)
      /\ Runs(HeldBy(f), d3, d4) /\ Runs(queue[f], d4, d5)
      /\ Runs(HeldBy(g), d5, d6) /\ Runs(queue[g], d6, d7)
      /\ Runs(HeldBy("read"), d7, d8)
  BY Zenon DEF RunsApart
<1>13. OnTheWay = temp \o At("write") \o (At(f) \o At(g)) \o HeldBy("read")
  BY DEF OnTheWay, Upstream
<1>. HIDE DEF f, g, d1, d2, d3, d4, d5, d6, d7, d8
<1>5. At("write") \in Seq(Chunks) /\ Runs(At("write"), d1, d3)
  BY <1>1, <1>3, <1>4, RunsAt
<1>6. At(f) \in Seq(Chunks) /\ Runs(At(f), d3, d5)
  BY <1>1, <1>3, <1>4, RunsAt
<1>7. At(g) \in Seq(Chunks) /\ Runs(At(g), d5, d7)
  BY <1>1, <1>3, <1>4, RunsAt
<1>8. /\ 0 \in Nat /\ 0 <= d1 /\ 0 <= d3 /\ 0 <= d7
      /\ d1 <= d3 /\ d3 <= d5 /\ d5 <= d7 /\ d3 <= d7
  BY <1>3
<1>. DEFINE out == temp \o At("write")
            in == At(f) \o At(g)
<1>9. out \in Seq(Chunks) /\ Runs(out, 0, d3)
  BY <1>3, <1>4, <1>5, <1>8, RunsJoin
<1>10. in \in Seq(Chunks) /\ Runs(in, d3, d7)
  BY <1>3, <1>6, <1>7, <1>8, RunsJoin
<1>. DEFINE both == out \o in
<1>11. both \in Seq(Chunks) /\ Runs(both, 0, d7)
  <2>. HIDE DEF out, in
  <2>. QED
    BY <1>3, <1>8, <1>9, <1>10, RunsJoin
<1>12. OnTheWay = both \o HeldBy("read")
  BY <1>13
<1>. HIDE DEF both
<1>14. Runs(OnTheWay, 0, d8)
  BY <1>2, <1>3, <1>4, <1>8, <1>11, <1>12, RunsJoin
<1>. QED
  BY <1>14 DEF d8

-----------------------------------------------------------------------------
(* The type invariant *)

LEMMA TypeInit ==
  Init => TypeInv
<1>. SUFFICES ASSUME Init PROVE TypeInv
  OBVIOUS
<1>. USE DEF Init, PipelineInit, ReadInit, CryptoInit, MacInit, WriteInit
<1>1. FlagsTyped
  BY DEF FlagsTyped
<1>2. PcsTyped
  <2>1. pc \in [Threads \cup {"main"} -> Pcs] /\ \A t \in Threads \cup {"main"} : pc[t] = "start"
    <3>1. pc = [t \in Threads \cup {"main"} |-> "start"]
      OBVIOUS
    <3>2. "start" \in Pcs
      BY DEF Pcs, ReadPcs
    <3>. QED
      BY ONLY <3>1, <3>2
  <2>2. ~Launched
    BY <2>1 DEF Launched
  <2>. QED
    BY <2>1, <2>2 DEF PcsTyped, ReadPcs, CryptoPcs, MacPcs, WritePcs, MainPcs, Threads
<1>3. QueuesTyped /\ HoldsTyped
  BY PipelineAssumption DEF QueuesTyped, HoldsTyped, Threads, Queues
<1>4. ReadTyped
  BY FileFacts DEF ReadTyped
<1>5. CryptoTyped
  <2>1. header \in BOOLEAN /\ worked \in BOOLEAN /\ even \in BOOLEAN
    BY Zenon
  <2>2. chain \in Int /\ chainOdd \in Int
    BY DEF IV
  <2>. QED
    BY <2>1, <2>2 DEF CryptoTyped
<1>6. MacTyped
  BY DEF MacTyped
<1>7. WriteTyped
  BY DEF WriteTyped, Threads
<1>8. OnceOnly
  BY DEF OnceOnly, Queues, Threads
<1>. QED
  BY <1>1, <1>2, <1>3, <1>4, <1>5, <1>6, <1>7, <1>8 DEF TypeInv

\* The chunk queueFileForEncrypt cuts off next.
LEMMA PlainChunkType ==
  ASSUME TypeInv, Encrypting, bytesRead < origFileSize
  PROVE  /\ PlainChunk.size \in 1 .. file.size - bytesRead
         /\ PlainChunk.chunk \in Raw
<1>1. /\ bytesRead \in Nat /\ file.size \in Nat /\ Rest = file.size - bytesRead
      /\ bytesRead < file.size
      /\ MaxChunk \in Nat \ {0} /\ Block \in Nat \ {0}
  BY FileFacts, PipelineAssumption DEF TypeInv, FlagsTyped, ReadTyped, Rest
<1>. DEFINE size == IF Rest >= MaxChunk THEN MaxChunk ELSE Rest
            id == bytesRead \div MaxChunk + 1
            e == <<>>
<1>2. size \in 1 .. file.size - bytesRead /\ size <= MaxChunk
  BY <1>1
<1>3. getPadSize(size) \in 0 .. HeaderSize + MaxChunk
  BY <1>1, <1>2, PadFacts DEF HeaderSize
<1>4. id \in 1 .. DataChunks(file.size)
  <2>1. bytesRead \div MaxChunk \in Nat /\ (bytesRead \div MaxChunk) * MaxChunk <= bytesRead
    BY <1>1, DivFacts
  <2>2. /\ DataChunks(file.size) \in Nat
        /\ file.size <= DataChunks(file.size) * MaxChunk
    BY <1>1, DataChunksFacts
  <2>3. (bytesRead \div MaxChunk + 1) * MaxChunk < DataChunks(file.size) * MaxChunk + MaxChunk
    BY <1>1, <2>1, <2>2
  <2>. QED
    BY <2>1, <2>2, <2>3, MulLess
<1>5. PlainChunk.chunk \in Chunks /\ PlainChunk.chunk.action = "ENCRYPT"
      /\ PlainChunk.chunk.id = id /\ PlainChunk.chunk.seal = <<>>
      /\ PlainChunk.chunk.digest = <<>> /\ PlainChunk.chunk.size = getPadSize(size)
  BY <1>3, <1>4 DEF PlainChunk, Chunk, Chunks, Actions, HeaderSize
<1>6. PlainChunk.size = size
  BY DEF PlainChunk
<1>. QED
  BY <1>2, <1>3, <1>4, <1>5, <1>6 DEF Raw, Good, ChunkOK

\* The cipher text of n bytes is a sequence of pieces.
LEMMA CipherTextType ==
  ASSUME NEW n \in Nat
  PROVE  /\ CipherText(n) \in Seq(Pieces)
         /\ Len(CipherText(n)) = DataChunks(n) + 1
<1>. DEFINE D == DataChunks(n)
<1>1. D \in Nat /\ n <= D * MaxChunk /\ D * MaxChunk < n + MaxChunk
      /\ MaxChunk \in Nat \ {0} /\ Block \in Nat \ {0}
  BY DataChunksFacts, PipelineAssumption
<1>2. ASSUME NEW k \in 0 .. D PROVE CipherPiece(n, k) \in Pieces
  <2>1. k # 0 => PieceSize(n, k) \in Nat
    <3>1. CASE k * MaxChunk <= n
      BY <1>1, <3>1 DEF PieceSize
    <3>2. CASE k # 0 /\ ~(k * MaxChunk <= n)
      <4>1. (k - 1) * MaxChunk <= (D - 1) * MaxChunk
        BY <1>1, <3>2
      <4>2. (D - 1) * MaxChunk < n
        BY <1>1
      <4>. QED
        BY <1>1, <3>2, <4>1, <4>2 DEF PieceSize
    <3>. QED
      BY <3>1, <3>2
  <2>2. k # 0 => getPadSize(PieceSize(n, k)) \in Nat
    BY <2>1, PadFacts
  <2>. DEFINE size == IF k = HeaderId THEN HeaderSize ELSE getPadSize(PieceSize(n, k))
              seal == <<k - 1>>
  <2>3. size \in Int /\ seal \in Seq(Int)
    BY <1>1, <2>2 DEF HeaderSize, HeaderId
  <2>. HIDE DEF size, seal
  <2>4. [Chunk("data", k, seal, <<>>, size) EXCEPT !.action = "data"] \in Pieces
    BY <2>3 DEF Chunk, Pieces, Actions
  <2>. QED
    BY <2>4 DEF CipherPiece, Data, size, seal
<1>. QED
  BY <1>1, <1>2 DEF CipherText

\* The chunk queueFileForDecrypt cuts off next.
LEMMA CipherChunkType ==
  ASSUME TypeInv, ~Encrypting, ~TooSmall, bytesRead < origFileSize
  PROVE  /\ CipherChunk.size \in 1 .. file.size - bytesRead
         /\ CipherChunk.chunk \in Good
         /\ bytesRead + CipherChunk.size >= HeaderSize
         /\ \/ bytesRead + CipherChunk.size + Block <= file.size
            \/ bytesRead + CipherChunk.size = file.size
<1>1. /\ bytesRead \in Nat /\ file.size \in Nat /\ file.plain \in Nat
      /\ Rest = file.size - bytesRead - Block /\ bytesRead < file.size
      /\ MaxChunk \in Nat \ {0} /\ Block \in Nat \ {0}
      /\ HeaderSize = 2 * Block
      /\ file.size > 3 * Block
      /\ bytesRead = 0 \/ (bytesRead >= HeaderSize /\ bytesRead + Block <= file.size)
  BY FileFacts, PipelineAssumption
  DEF TypeInv, FlagsTyped, ReadTyped, Rest, TooSmall, HeaderSize
<1>. DEFINE size == IF bytesRead = 0 THEN HeaderSize
                    ELSE IF Rest >= MaxChunk THEN MaxChunk
                    ELSE IF Rest > 0 THEN Rest
                    ELSE Block
            k == (bytesRead - HeaderSize) \div MaxChunk + 1
            mac == IF file.damage \in {"extended", "shortened"} THEN <<>>
                   ELSE CipherText(file.plain)
<1>2. /\ size \in 1 .. file.size - bytesRead /\ size <= HeaderSize + MaxChunk
      /\ bytesRead + size >= HeaderSize
      /\ bytesRead + size + Block <= file.size \/ bytesRead + size = file.size
  BY <1>1
<1>a. /\ CipherChunk.size = size
      /\ CipherChunk.chunk = IF bytesRead = 0
                 THEN Chunk("CHECK_HEADER", HeaderId, HeaderSeal, <<>>, size)
                 ELSE IF Rest > 0
                 THEN Chunk("GEN_MAC", k, DataSeal(k), <<>>, getPadSize(size))
                 ELSE Chunk("MAC", MacId, <<>>, mac, size)
  BY DEF CipherChunk
<1>. HIDE DEF size, mac, k
<1>3. <<>> \in Seq(Pieces) /\ <<>> \in Seq(Int) /\ Len(<<>>) <= 1 /\ mac \in Seq(Pieces)
  <2>1. CipherText(file.plain) \in Seq(Pieces)
    BY <1>1, CipherTextType
  <2>. QED
    BY <2>1 DEF mac
<1>. DEFINE Ids == {HeaderId, MacId, NoId} \cup 1 .. DataChunks(file.size)
<1>c. /\ HeaderId \in Ids /\ MacId \in Ids /\ HeaderId \in Int /\ MacId \in Int
      /\ "CHECK_HEADER" \in Actions \ {"data"} /\ "GEN_MAC" \in Actions \ {"data"}
      /\ "MAC" \in Actions \ {"data"}
  BY DEF Actions, HeaderId, MacId
<1>4. CASE bytesRead = 0
  <2>1. HeaderSeal \in Seq(Int) /\ Len(HeaderSeal) <= 1
    BY DEF HeaderSeal, IV, OtherIV, Garbled
  <2>2. CipherChunk.size = size
        /\ CipherChunk.chunk = Chunk("CHECK_HEADER", HeaderId, HeaderSeal, <<>>, size)
    BY <1>4, <1>a
  <2>3. size \in 0 .. HeaderSize + MaxChunk /\ size \in Int
    BY <1>1, <1>2
  <2>4. Chunk("CHECK_HEADER", HeaderId, HeaderSeal, <<>>, size) \in Good
    BY <1>3, <1>c, <2>1, <2>3, GoodChunk
  <2>. QED
    BY <1>2, <2>2, <2>4
<1>5. CASE bytesRead # 0 /\ Rest > 0
  <2>1. k \in 1 .. DataChunks(file.size)
    <3>1. bytesRead - HeaderSize \in Nat
      BY <1>1, <1>5
    <3>2. /\ (bytesRead - HeaderSize) \div MaxChunk \in Nat
          /\ ((bytesRead - HeaderSize) \div MaxChunk) * MaxChunk <= bytesRead - HeaderSize
      BY <1>1, <3>1, DivFacts
    <3>3. /\ DataChunks(file.size) \in Nat
          /\ file.size <= DataChunks(file.size) * MaxChunk
      BY <1>1, DataChunksFacts
    <3>4. k * MaxChunk < DataChunks(file.size) * MaxChunk + MaxChunk
      BY <1>1, <1>5, <3>2, <3>3 DEF k
    <3>. QED
      BY <3>2, <3>3, <3>4, MulLess DEF k
  <2>2. DataSeal(k) \in Seq(Int) /\ Len(DataSeal(k)) <= 1
    BY <2>1 DEF DataSeal, Garbled
  <2>3. size = IF Rest >= MaxChunk THEN MaxChunk ELSE Rest
    BY <1>5 DEF size
  <2>4. CipherChunk.size = size
        /\ CipherChunk.chunk = Chunk("GEN_MAC", k, DataSeal(k), <<>>, getPadSize(size))
    BY <1>5, <1>a
  <2>5. getPadSize(size) \in 0 .. HeaderSize + MaxChunk /\ getPadSize(size) \in Int
    <3>1. size \in Nat /\ size <= MaxChunk
      BY <1>1, <1>5, <2>3
    <3>. QED
      BY <1>1, <3>1, PadFacts
  <2>7. k \in Ids /\ k \in Int
    BY <2>1
  <2>6. Chunk("GEN_MAC", k, DataSeal(k), <<>>, getPadSize(size)) \in Good
    BY <1>3, <1>c, <2>2, <2>5, <2>7, GoodChunk
  <2>. QED
    BY <1>2, <2>4, <2>6
<1>6. CASE bytesRead # 0 /\ ~(Rest > 0)
  <2>1. size = Block
    BY <1>1, <1>6 DEF size
  <2>2. CipherChunk.size = size
        /\ CipherChunk.chunk = Chunk("MAC", MacId, <<>>, mac, size)
    BY <1>1, <1>6, <1>a
  <2>4. size \in 0 .. HeaderSize + MaxChunk /\ size \in Int
    BY <1>1, <2>1
  <2>3. Chunk("MAC", MacId, <<>>, mac, size) \in Good
    BY <1>1, <1>2, <1>3, <1>c, <2>4, GoodChunk
  <2>. QED
    BY <1>2, <2>2, <2>3
<1>. QED
  BY <1>1, <1>4, <1>5, <1>6

\* The steps of the read thread.
LEMMA ReadTypes ==
  TypeInv /\ ReadStep => TypeInv'
<1>. SUFFICES ASSUME TypeInv, ReadStep PROVE TypeInv'
  OBVIOUS
<1>1. UNCHANGED <<file, cryptoVars, macVars, writeVars>> /\ Started /\ Reader
      /\ Good' = Good /\ Raw' = Raw /\ NoMac' = NoMac /\ (TooSmall <=> TooSmall')
  <2>1. UNCHANGED file
    BY DEF ReadStep, Reader, ReadOpen, ReadChunk, ReadQueue, ReadEnd, ReadDone
  <2>. QED
    BY <2>1, SameFile DEF ReadStep
<1>. USE PipelineAssumption
     DEF TypeInv, FlagsTyped, PcsTyped, QueuesTyped, HoldsTyped, ReadTyped,
         CryptoTyped, MacTyped, WriteTyped, OnceOnly, Threads, Queues,
         Launched, Started, readVars, cryptoVars, macVars, writeVars, flagVars
<1>2. CASE ReadOpen
  <2>1. error' \in Errors \cup {"none"} /\ UNCHANGED <<running, valid, newFileSize, queue, hold, bytesRead>>
    BY <1>2 DEF ReadOpen, Errors
  <2>3. bytesRead = 0 /\ origFileSize' \in {0, file.size} /\ file.size \in Nat
    BY <1>2, FileFacts DEF ReadOpen, Sizes
  <2>2. pc["read"] = "start" /\ \E to \in {"loop", "exit"} : pc' = [pc EXCEPT !["read"] = to]
    BY <1>2 DEF ReadOpen, Go
  <2>. QED
    BY <1>1, <2>1, <2>2, <2>3 DEF Pcs, ReadPcs
<1>3. CASE ReadChunk
  <2>. DEFINE next == IF Encrypting THEN PlainChunk ELSE CipherChunk
  <2>1. /\ next.chunk \in Good /\ next.chunk # NULL
        /\ Encrypting => next.chunk \in Raw
        /\ bytesRead + next.size \in 0 .. origFileSize
        /\ ~Encrypting => \/ /\ bytesRead + next.size >= HeaderSize
                             /\ bytesRead + next.size + Block <= file.size
                          \/ bytesRead + next.size = file.size
    <3>1. /\ bytesRead < origFileSize /\ bytesRead \in Nat /\ file.size \in Nat /\ ~TooSmall
          /\ origFileSize = file.size
      BY <1>1, <1>3, FileFacts DEF ReadChunk
    <3>2. CASE Encrypting
      <4>1. next.chunk \in Raw /\ next.size \in 1 .. file.size - bytesRead
        BY ONLY TypeInv, <3>1, <3>2, PlainChunkType
      <4>2. next.chunk \in Good /\ next.chunk # NULL
        BY ONLY <4>1, GoodFacts
      <4>. QED
        BY ONLY <3>1, <3>2, <4>1, <4>2
    <3>3. CASE ~Encrypting
      <4>1. /\ next.chunk \in Good /\ next.size \in 1 .. file.size - bytesRead
            /\ bytesRead + next.size >= HeaderSize
            /\ \/ bytesRead + next.size + Block <= file.size
               \/ bytesRead + next.size = file.size
        BY ONLY TypeInv, <3>1, <3>3, CipherChunkType
      <4>2. next.chunk # NULL
        BY ONLY <4>1, GoodFacts
      <4>. QED
        BY ONLY <3>1, <3>3, <4>1, <4>2
    <3>. QED
      BY ONLY <3>2, <3>3
  <2>. HIDE DEF next
  <2>2. CASE /\ bytesRead' = bytesRead + next.size
             /\ Keep("read", next.chunk)
             /\ Go("read", "queue")
    <3>1. /\ pc["read"] = "loop" /\ pc' = [pc EXCEPT !["read"] = "queue"]
          /\ hold' = [hold EXCEPT !["read"] = next.chunk]
          /\ UNCHANGED <<flagVars, queue, status, origFileSize>>
      BY <1>1, <1>3, <2>2 DEF ReadChunk, ReadStep, Go, Keep
    <3>11. FlagsTyped' /\ ReadTyped' /\ CryptoTyped'
      BY <1>1, <2>1, <2>2, <3>1
    <3>12. MacTyped' /\ WriteTyped'
      BY <1>1, <2>1, <2>2, <3>1
    <3>13. PcsTyped'
      BY <1>1, <2>1, <2>2, <3>1 DEF Pcs, ReadPcs
    <3>14. QueuesTyped'
      BY <1>1, <2>1, <2>2, <3>1
    <3>15. HoldsTyped'
      BY <1>1, <2>1, <2>2, <3>1
    <3>16. OnceOnly'
      BY <1>1, <2>1, <2>2, <3>1
    <3>. QED
      BY <3>11, <3>12, <3>13, <3>14, <3>15, <3>16
  <2>3. CASE Go("main", "crashed") /\ UNCHANGED <<bytesRead, hold>>
    <3>1. /\ pc' = [pc EXCEPT !["main"] = "crashed"]
          /\ UNCHANGED <<flagVars, queue, hold, readVars, status>>
      BY <1>1, <1>3, <2>3 DEF ReadChunk, ReadStep, Go, readVars
    <3>11. FlagsTyped' /\ ReadTyped' /\ CryptoTyped'
      BY <1>1, <3>1
    <3>12. MacTyped' /\ WriteTyped'
      BY <1>1, <3>1
    <3>13. PcsTyped'
      BY <1>1, <3>1 DEF Pcs, MainPcs
    <3>14. QueuesTyped'
      BY <1>1, <3>1
    <3>15. HoldsTyped'
      BY <1>1, <3>1
    <3>16. OnceOnly'
      BY <1>1, <3>1
    <3>. QED
      BY <3>11, <3>12, <3>13, <3>14, <3>15, <3>16
  <2>. QED
    BY <1>3, <2>2, <2>3 DEF ReadChunk, next
<1>4. CASE ReadQueue
  BY <1>1, <1>4, GoodFacts DEF ReadQueue, Goto, Put, Keep, ReadOut, queueIsFull, Pcs, ReadPcs
<1>5. CASE ReadEnd
  BY <1>1, <1>5 DEF ReadEnd, Goto, Pcs, ReadPcs
<1>6. CASE ReadDone
  BY <1>1, <1>6, DoneType DEF ReadDone, Goto, Put, ReadOut, queueIsFull, Pcs, ReadPcs
<1>. QED
  BY <1>1, <1>2, <1>3, <1>4, <1>5, <1>6 DEF Reader

\* What encryptQueue or decryptQueue works on, and the queue after it took it.
LEMMA TakenType ==
  ASSUME TypeInv, TakeIt, Taken # NULL
  PROVE  /\ Taken \in Good
         /\ queue' \in [Queues -> Seq(Good)]
         /\ \A q \in Queues : Len(queue'[q]) <= Capacity
         /\ queue'["mac"] = queue["mac"] /\ queue'["write"] = queue["write"]
         /\ Encrypting => /\ Taken \in NoMac
                          /\ queue'["crypto"] \in Seq(Raw)
                          /\ Fresh => Taken \in Raw
<1>. USE DEF TypeInv, QueuesTyped, HoldsTyped, OnceOnly
<1>1. CASE hold["crypto"] = NULL
  <2>1. Taken = front("crypto") /\ Fresh /\ deque("crypto")
    BY <1>1 DEF Taken, Fresh, TakeIt
  <2>2. "crypto" \in Queues /\ queue["crypto"] # <<>> /\ Taken = Head(queue["crypto"])
    BY <2>1, FrontType DEF Queues
  <2>3. /\ queue' = [queue EXCEPT !["crypto"] = Tail(@)]
        /\ queue \in [Queues -> Seq(Good)]
    BY <2>1 DEF deque
  <2>4. /\ queue' \in [Queues -> Seq(Good)] /\ Taken \in Good
        /\ queue'["crypto"] = Tail(queue["crypto"])
        /\ Len(queue'["crypto"]) = Len(queue["crypto"]) - 1
        /\ \A q \in Queues \ {"crypto"} : queue'[q] = queue[q]
    BY <2>2, <2>3, TakeType
  <2>5. \A q \in Queues : Len(queue'[q]) <= Capacity
    <3>1. Len(queue["crypto"]) \in Nat /\ Len(queue["crypto"]) <= Capacity /\ Capacity \in Nat
      BY <2>2, <2>3, PipelineAssumption
    <3>2. Len(queue'["crypto"]) <= Capacity
      BY <2>4, <3>1
    <3>. QED
      BY <2>4, <3>2
  <2>6. Encrypting => Taken \in Raw /\ queue'["crypto"] \in Seq(Raw)
    BY <2>2, <2>4
  <2>. QED
    BY <2>1, <2>4, <2>5, <2>6, GoodFacts DEF Queues
<1>2. CASE hold["crypto"] # NULL
  BY <1>2, GoodFacts DEF Taken, Fresh, TakeIt, Threads
<1>. QED
  BY <1>1, <1>2

\* The steps of the crypto thread.
LEMMA CryptoTypes ==
  TypeInv /\ CryptoStep => TypeInv'
<1>. SUFFICES ASSUME TypeInv, CryptoStep PROVE TypeInv'
  OBVIOUS
<1>1. UNCHANGED <<file, readVars, macVars, writeVars>> /\ Started /\ Crypto
      /\ Good' = Good /\ Raw' = Raw /\ NoMac' = NoMac /\ (TooSmall <=> TooSmall')
  <2>1. UNCHANGED file
    BY DEF CryptoStep, Crypto, CryptoStart, CryptoTurn, CryptoNothing, CryptoSeesDone,
           EncryptHeader, EncryptChunk, StripHeader, DecryptChunk, CryptoPut, CryptoDone
  <2>. QED
    BY <2>1, SameFile DEF CryptoStep
<1>. USE PipelineAssumption
     DEF TypeInv, FlagsTyped, PcsTyped, QueuesTyped, HoldsTyped, ReadTyped,
         CryptoTyped, MacTyped, WriteTyped, OnceOnly, Threads, Queues,
         Launched, Started, readVars, macVars, writeVars, flagVars, cryptoVars
<1>2. CASE CryptoStart
  <2>1. error' \in Errors \cup {"none"} /\ UNCHANGED <<running, valid, newFileSize, queue, hold, cryptoVars>>
    BY <1>2 DEF CryptoStart, Errors
  <2>2. pc["crypto"] = "start" /\ \E to \in {"loop", "exit"} : pc' = [pc EXCEPT !["crypto"] = to]
    BY <1>2 DEF CryptoStart, Go
  <2>. QED
    BY <1>1, <2>1, <2>2 DEF Pcs, CryptoPcs
<1>3. CASE CryptoTurn
  BY <1>1, <1>3 DEF CryptoTurn, Goto, Pcs, CryptoPcs
<1>4. CASE CryptoNothing
  BY <1>1, <1>4 DEF CryptoNothing, Goto, Taken, Pcs, CryptoPcs
<1>5. CASE CryptoSeesDone
  BY <1>1, <1>5, TakenType DEF CryptoSeesDone, Goto, Pcs, CryptoPcs
<1>6. CASE EncryptHeader
  <2>1. /\ TakeIt /\ Taken # NULL /\ Encrypting
        /\ pc["crypto"] = "take" /\ pc' = [pc EXCEPT !["crypto"] = "put"]
        /\ UNCHANGED <<running, error, valid, newFileSize, chainOdd, even>>
        /\ header' = FALSE /\ worked' = FALSE /\ header
    BY <1>6 DEF EncryptHeader, Goto
  <2>2. /\ Taken \in Good
        /\ queue' \in [Queues -> Seq(Good)]
        /\ \A q \in Queues : Len(queue'[q]) <= Capacity
        /\ queue'["mac"] = queue["mac"]
        /\ queue'["crypto"] \in Seq(Raw)
    BY <2>1, TakenType
  <2>3. \E c \in NoMac : hold' = [hold EXCEPT !["crypto"] = c] /\ chain' = ChainOf(c)
    <3>1. Fresh /\ IV \in Int
      BY <2>1 DEF Fresh, IV
    <3>2. Encipher(Taken, IV) \in NoMac
      BY <2>1, <3>1, TakenType, CipherType
    <3>. QED
      BY <1>6, <3>2 DEF EncryptHeader, Keep
  <2>4. PICK c \in NoMac : hold' = [hold EXCEPT !["crypto"] = c] /\ chain' = ChainOf(c)
    BY <2>3
  <2>5. c \in Good /\ c # NULL /\ chain' \in Int
    BY <2>4, GoodFacts, CipherType
  <2>6. FlagsTyped' /\ ReadTyped' /\ MacTyped'
    BY <1>1, <2>1
  <2>7. CryptoTyped'
    BY <1>1, <2>1, <2>5
  <2>7a. WriteTyped'
    BY <1>1, <2>1
  <2>8. PcsTyped'
    BY <1>1, <2>1 DEF Pcs, CryptoPcs
  <2>9. QueuesTyped'
    BY <1>1, <2>2
  <2>10. HoldsTyped'
    BY <1>1, <2>1, <2>4, <2>5
  <2>11. OnceOnly'
    BY <1>1, <2>1, <2>2, <2>4, <2>5
  <2>. QED
    BY <2>6, <2>7, <2>7a, <2>8, <2>9, <2>10, <2>11
<1>7. CASE EncryptChunk
  <2>1. /\ TakeIt /\ Taken # NULL /\ Encrypting
        /\ pc["crypto"] = "take" /\ pc' = [pc EXCEPT !["crypto"] = "put"]
        /\ UNCHANGED <<running, error, valid, newFileSize, chainOdd, even>>
        /\ ~header /\ header' = header /\ worked' = TRUE
    BY <1>7 DEF EncryptChunk, Goto
  <2>2. /\ Taken \in Good
        /\ queue' \in [Queues -> Seq(Good)]
        /\ \A q \in Queues : Len(queue'[q]) <= Capacity
        /\ queue'["mac"] = queue["mac"]
        /\ queue'["crypto"] \in Seq(Raw)
    BY <2>1, TakenType
  <2>3. \E c \in NoMac : hold' = [hold EXCEPT !["crypto"] = c] /\ chain' = ChainOf(c)
    BY <1>7, <2>1, TakenType, CipherType DEF EncryptChunk, Keep, Fresh, Taken
  <2>4. PICK c \in NoMac : hold' = [hold EXCEPT !["crypto"] = c] /\ chain' = ChainOf(c)
    BY <2>3
  <2>5. c \in Good /\ c # NULL /\ chain' \in Int
    BY <2>4, GoodFacts, CipherType
  <2>6. FlagsTyped' /\ ReadTyped' /\ MacTyped'
    BY <1>1, <2>1
  <2>7. CryptoTyped'
    BY <1>1, <2>1, <2>5
  <2>7a. WriteTyped'
    BY <1>1, <2>1
  <2>8. PcsTyped'
    BY <1>1, <2>1 DEF Pcs, CryptoPcs
  <2>9. QueuesTyped'
    BY <1>1, <2>2
  <2>10. HoldsTyped'
    BY <1>1, <2>1, <2>4, <2>5
  <2>11. OnceOnly'
    BY <1>1, <2>1, <2>2, <2>4, <2>5
  <2>. QED
    BY <2>6, <2>7, <2>7a, <2>8, <2>9, <2>10, <2>11
<1>8. CASE StripHeader
  <2>1. /\ TakeIt /\ Taken # NULL /\ ~Encrypting
        /\ pc["crypto"] = "take" /\ pc' = [pc EXCEPT !["crypto"] = "loop"]
        /\ UNCHANGED <<running, error, valid, newFileSize, hold, chainOdd, even>>
        /\ header' = FALSE /\ worked' = FALSE /\ chain' = ChainOf(Taken)
    BY <1>8 DEF StripHeader, Goto
  <2>2. /\ Taken \in Good
        /\ queue' \in [Queues -> Seq(Good)]
        /\ \A q \in Queues : Len(queue'[q]) <= Capacity
    BY <2>1, TakenType
  <2>3. chain' \in Int
    BY <2>1, <2>2, CipherType
  <2>6. FlagsTyped' /\ ReadTyped' /\ MacTyped'
    BY <1>1, <2>1
  <2>7. CryptoTyped' /\ WriteTyped'
    BY <1>1, <2>1, <2>3
  <2>8. PcsTyped'
    BY <1>1, <2>1 DEF Pcs, CryptoPcs
  <2>9. QueuesTyped'
    BY <1>1, <2>2
  <2>10. HoldsTyped'
    BY <1>1, <2>1
  <2>11. OnceOnly'
    BY <1>1, <2>1
  <2>. QED
    BY <2>6, <2>7, <2>8, <2>9, <2>10, <2>11
<1>9. CASE DecryptChunk
  <2>1. /\ TakeIt /\ Taken # NULL /\ ~Encrypting
        /\ pc["crypto"] = "take" /\ pc' = [pc EXCEPT !["crypto"] = "put"]
        /\ UNCHANGED <<running, error, valid, newFileSize, header>>
        /\ worked' = TRUE
    BY <1>9 DEF DecryptChunk, Goto
  <2>2. /\ Taken \in Good
        /\ queue' \in [Queues -> Seq(Good)]
        /\ \A q \in Queues : Len(queue'[q]) <= Capacity
    BY <2>1, TakenType
  <2>3. chain' \in Int /\ chainOdd' \in Int /\ even' \in BOOLEAN
    BY <1>9, <2>2, CipherType DEF DecryptChunk
  <2>4. \E c \in Good : hold' = [hold EXCEPT !["crypto"] = c]
    <3>1. CASE Fresh \/ ~worked
      <4>1. Decipher(Taken, IF even THEN chain ELSE chainOdd) \in Good
        BY <2>2, CipherType
      <4>. QED
        BY <1>9, <3>1, <4>1 DEF DecryptChunk, Keep
    <3>2. CASE ~(Fresh \/ ~worked)
      <4>1. hold["crypto"] # NULL /\ hold["crypto"] \in Good /\ hold' = hold
        BY <1>9, <2>1, <3>2 DEF DecryptChunk, Fresh
      <4>. QED
        BY <4>1
    <3>. QED
      BY <3>1, <3>2
  <2>6. FlagsTyped' /\ ReadTyped' /\ MacTyped'
    BY <1>1, <2>1
  <2>7. CryptoTyped' /\ WriteTyped'
    BY <1>1, <2>1, <2>3
  <2>8. PcsTyped'
    BY <1>1, <2>1 DEF Pcs, CryptoPcs
  <2>9. QueuesTyped'
    BY <1>1, <2>2
  <2>10. HoldsTyped'
    BY <1>1, <2>1, <2>4, GoodFacts
  <2>11. OnceOnly'
    BY <1>1, <2>1
  <2>. QED
    BY <2>6, <2>7, <2>8, <2>9, <2>10, <2>11
<1>10. CASE CryptoPut
  <2>1. CASE queueIsFull(CryptoOut)
    <3>1. /\ pc["crypto"] = "put" /\ pc' = [pc EXCEPT !["crypto"] = "loop"]
          /\ UNCHANGED <<running, error, valid, newFileSize, queue, hold, cryptoVars>>
      BY <1>10, <2>1 DEF CryptoPut, Goto
    <3>2. Encrypting => queue["mac"] # <<>>
      BY <2>1 DEF queueIsFull, CryptoOut
    <3>. QED
      BY <1>1, <3>1, <3>2 DEF Pcs, CryptoPcs
  <2>2. CASE ~queueIsFull(CryptoOut)
    <3>1. /\ pc["crypto"] = "put" /\ pc' = [pc EXCEPT !["crypto"] = "loop"]
          /\ UNCHANGED <<running, error, valid, newFileSize, cryptoVars>>
          /\ hold' = [hold EXCEPT !["crypto"] = NULL]
          /\ ~queueIsFull(CryptoOut)
      BY <1>10, <2>2 DEF CryptoPut, Goto, Keep
    <3>2. \E c \in Good : queue' = [queue EXCEPT ![CryptoOut] = Append(@, c)]
      <4>1. hold["crypto"] \in Good /\ (Encrypting => hold["crypto"] \in NoMac)
        BY <1>10 DEF CryptoPut, Goto
      <4>2. Encrypting => [hold["crypto"] EXCEPT !.action = "GEN_MAC"] \in Good
        BY <4>1, ActionType, GoodFacts DEF Actions
      <4>. QED
        BY <1>10, <2>2, <4>1, <4>2 DEF CryptoPut, Put
    <3>3. CryptoOut = IF Encrypting THEN "mac" ELSE "write"
      BY DEF CryptoOut
    <3>. QED
      BY <1>1, <3>1, <3>2, <3>3 DEF queueIsFull, Pcs, CryptoPcs
  <2>. QED
    BY <2>1, <2>2
<1>11. CASE CryptoDone
  BY <1>1, <1>11, DoneType DEF CryptoDone, Goto, Put, CryptoOut, queueIsFull, Pcs, CryptoPcs
<1>. QED
  BY <1>1, <1>2, <1>3, <1>4, <1>5, <1>6, <1>7, <1>8, <1>9, <1>10, <1>11 DEF Crypto

\* The steps of the MAC thread.
LEMMA MacTypes ==
  TypeInv /\ MacStep => TypeInv'
<1>. SUFFICES ASSUME TypeInv, MacStep PROVE TypeInv'
  OBVIOUS
<1>1. UNCHANGED <<file, running, readVars, cryptoVars, writeVars>> /\ Started /\ Mac
      /\ Good' = Good /\ Raw' = Raw /\ NoMac' = NoMac /\ (TooSmall <=> TooSmall')
  <2>1. UNCHANGED <<file, running>>
    BY DEF MacStep, Mac, MacStart, GenerateCond, GenerateGet, GenerateIdle, GeneratePut,
           GenerateAppend, AuthTurn, AuthTake, AuthHeld, AuthHeaderBad, AuthHash, AuthPass,
           AuthFinal, AuthStored, AuthFetch, AuthVerdict, MacDone, flagVars
  <2>. QED
    BY <2>1, SameFile DEF MacStep
<1>2. /\ queue \in [Queues -> Seq(Good)]
      /\ \A q \in Queues : Len(queue[q]) \in Nat /\ Len(queue[q]) <= Capacity
      /\ "mac" \in Queues /\ MacOut \in Queues \ {"mac"} /\ Capacity \in Nat
      /\ Encrypting => MacOut = "write"
  BY PipelineAssumption DEF TypeInv, QueuesTyped, MacOut, Queues
<1>3. ASSUME deque("mac"), front("mac") # NULL
      PROVE  /\ queue' \in [Queues -> Seq(Good)]
             /\ \A q \in Queues : Len(queue'[q]) <= Capacity
             /\ front("mac") \in Good
             /\ queue["mac"] # <<>> /\ queue'["crypto"] = queue["crypto"]
  <2>1. /\ queue["mac"] # <<>> /\ front("mac") \in Good
        /\ queue' = [queue EXCEPT !["mac"] = Tail(@)]
    BY <1>2, <1>3, FrontType DEF deque
  <2>2. /\ queue' \in [Queues -> Seq(Good)]
        /\ Len(queue'["mac"]) = Len(queue["mac"]) - 1
        /\ \A q \in Queues \ {"mac"} : queue'[q] = queue[q]
    BY <1>2, <2>1, TakeType
  <2>3. Len(queue'["mac"]) <= Capacity
    BY <1>2, <2>2
  <2>. QED
    BY <1>2, <2>1, <2>2, <2>3 DEF Queues
<1>4. ASSUME NEW c \in Good, Put(MacOut, c)
      PROVE  /\ queue' \in [Queues -> Seq(Good)]
             /\ \A q \in Queues : Len(queue'[q]) <= Capacity
             /\ queue'["mac"] = queue["mac"]
             /\ Encrypting => queue'["crypto"] = queue["crypto"]
  <2>1. queue' = [queue EXCEPT ![MacOut] = Append(@, c)] /\ Len(queue[MacOut]) # Capacity
    BY <1>4 DEF Put, queueIsFull
  <2>2. /\ queue' \in [Queues -> Seq(Good)]
        /\ Len(queue'[MacOut]) = Len(queue[MacOut]) + 1
        /\ \A q \in Queues \ {MacOut} : queue'[q] = queue[q]
    BY <1>2, <2>1, PutType
  <2>3. Len(queue'[MacOut]) <= Capacity
    BY <1>2, <2>1, <2>2
  <2>. QED
    BY <1>2, <2>2, <2>3 DEF Queues
<1>. USE PipelineAssumption
     DEF TypeInv, FlagsTyped, PcsTyped, QueuesTyped, HoldsTyped, ReadTyped,
         CryptoTyped, MacTyped, WriteTyped, OnceOnly, Threads, Queues,
         Launched, Started, readVars, cryptoVars, writeVars, flagVars, macVars
<1>5. CASE MacStart
  BY <1>1, <1>5 DEF MacStart, Goto, Held, Pcs, MacPcs
<1>6. CASE GenerateCond
  BY <1>1, <1>6 DEF GenerateCond, Goto, Held, Pcs, MacPcs
<1>7. CASE GenerateIdle
  BY <1>1, <1>7 DEF GenerateIdle, Goto, Held, Pcs, MacPcs
<1>8. CASE AuthTurn
  BY <1>1, <1>8 DEF AuthTurn, Goto, Held, Pcs, MacPcs
<1>9. CASE AuthHeld
  BY <1>1, <1>9 DEF AuthHeld, Goto, Held, Pcs, MacPcs
<1>10. CASE AuthStored
  BY <1>1, <1>10 DEF AuthStored, Goto, Held, Pcs, MacPcs
<1>11. CASE GenerateGet
  <2>1. /\ deque("mac") /\ front("mac") # NULL /\ Held = NULL /\ pc["mac"] = "get"
        /\ UNCHANGED <<flagVars, macHeader>>
        /\ \E to \in {"put", "cond"} : pc' = [pc EXCEPT !["mac"] = to]
    BY <1>11 DEF GenerateGet, Go
  <2>2. /\ queue' \in [Queues -> Seq(Good)]
        /\ \A q \in Queues : Len(queue'[q]) <= Capacity
        /\ front("mac") \in Good
        /\ queue["mac"] # <<>> /\ queue'["crypto"] = queue["crypto"]
    BY <1>3, <2>1
  <2>3. /\ digest' \in Seq(Pieces)
        /\ \E c \in Good : hold' = [hold EXCEPT !["mac"] = c]
    <3>1. CASE front("mac").action = "GEN_MAC"
      <4>1. front("mac") \in NoMac
        BY <2>2, <3>1 DEF NoMac
      <4>2. Data(front("mac")) \in Pieces /\ [front("mac") EXCEPT !.action = "DECRYPT"] \in NoMac
        BY <4>1, DataType, ActionType DEF Actions
      <4>3. /\ digest' = Append(digest, Data(front("mac")))
            /\ hold' = [hold EXCEPT !["mac"] = [front("mac") EXCEPT !.action = "DECRYPT"]]
        BY <1>11, <3>1 DEF GenerateGet, Keep
      <4>4. digest' \in Seq(Pieces)
        BY <4>2, <4>3
      <4>. QED
        BY <4>2, <4>3, <4>4, GoodFacts
    <3>2. CASE front("mac").action # "GEN_MAC"
      BY <1>11, <2>2, <3>2 DEF GenerateGet, Keep
    <3>. QED
      BY <3>1, <3>2
  <2>11. FlagsTyped' /\ ReadTyped' /\ CryptoTyped'
    BY <1>1, <2>1
  <2>12. MacTyped' /\ WriteTyped'
    BY <1>1, <2>1, <2>3
  <2>13. PcsTyped'
    BY <1>1, <2>1 DEF Pcs, MacPcs
  <2>14. QueuesTyped'
    BY <1>1, <2>1, <2>2
  <2>15. HoldsTyped'
    BY <1>1, <2>1, <2>3, GoodFacts
  <2>16. OnceOnly'
    BY <1>1, <2>1, <2>2, <2>3
  <2>. QED
    BY <2>11, <2>12, <2>13, <2>14, <2>15, <2>16
<1>12. CASE GeneratePut
  <2>1. /\ Held \in Good /\ Put(MacOut, Held) /\ pc["mac"] = "put"
        /\ UNCHANGED <<flagVars, macVars>>
        /\ pc' = [pc EXCEPT !["mac"] = "cond"] /\ hold' = [hold EXCEPT !["mac"] = NULL]
    BY <1>12 DEF GeneratePut, Goto, Keep, Held
  <2>2. /\ queue' \in [Queues -> Seq(Good)]
        /\ \A q \in Queues : Len(queue'[q]) <= Capacity
        /\ queue'["mac"] = queue["mac"]
        /\ Encrypting => queue'["crypto"] = queue["crypto"]
    BY <1>4, <2>1
  <2>11. FlagsTyped' /\ ReadTyped' /\ CryptoTyped'
    BY <1>1, <2>1
  <2>12. MacTyped' /\ WriteTyped'
    BY <1>1, <2>1
  <2>13. PcsTyped'
    BY <1>1, <2>1 DEF Pcs, MacPcs
  <2>14. QueuesTyped'
    BY <1>1, <2>1, <2>2
  <2>15. HoldsTyped'
    BY <1>1, <2>1
  <2>16. OnceOnly'
    BY <1>1, <2>1, <2>2
  <2>. QED
    BY <2>11, <2>12, <2>13, <2>14, <2>15, <2>16
<1>13. CASE GenerateAppend
  <2>1. /\ Put(MacOut, Chunk("MAC", MacId, <<>>, digest, Block)) /\ pc["mac"] = "append"
        /\ UNCHANGED <<flagVars, macVars, hold>>
        /\ pc' = [pc EXCEPT !["mac"] = "flush"]
    BY <1>13 DEF GenerateAppend, Goto
  <2>2. Chunk("MAC", MacId, <<>>, digest, Block) \in Good
    <3>1. /\ "MAC" \in Actions \ {"data"} /\ MacId \in Int
          /\ MacId \in {HeaderId, MacId, NoId} \cup 1 .. DataChunks(file.size)
          /\ <<>> \in Seq(Int) /\ Len(<<>>) <= 1 /\ digest \in Seq(Pieces)
          /\ Block \in 0 .. HeaderSize + MaxChunk /\ Block \in Int
      BY DEF Actions, MacId, HeaderSize
    <3>. QED
      BY ONLY <3>1, GoodChunk
  <2>3. /\ queue' \in [Queues -> Seq(Good)]
        /\ \A q \in Queues : Len(queue'[q]) <= Capacity
        /\ queue'["mac"] = queue["mac"]
        /\ Encrypting => queue'["crypto"] = queue["crypto"]
    BY <1>4, <2>1, <2>2
  <2>11. FlagsTyped' /\ ReadTyped' /\ CryptoTyped'
    BY <1>1, <2>1
  <2>12. MacTyped' /\ WriteTyped'
    BY <1>1, <2>1
  <2>13. PcsTyped'
    BY <1>1, <2>1 DEF Pcs, MacPcs
  <2>14. QueuesTyped'
    BY <1>1, <2>1, <2>3
  <2>15. HoldsTyped'
    BY <1>1, <2>1
  <2>16. OnceOnly'
    BY <1>1, <2>1, <2>3
  <2>. QED
    BY <2>11, <2>12, <2>13, <2>14, <2>15, <2>16
<1>14. CASE MacDone
  <2>1. /\ Put(MacOut, DONE) /\ pc["mac"] = "flush"
        /\ UNCHANGED <<flagVars, macVars, hold>>
        /\ pc' = [pc EXCEPT !["mac"] = "exit"]
    BY <1>14 DEF MacDone, Goto
  <2>2. /\ queue' \in [Queues -> Seq(Good)]
        /\ \A q \in Queues : Len(queue'[q]) <= Capacity
        /\ queue'["mac"] = queue["mac"]
        /\ Encrypting => queue'["crypto"] = queue["crypto"]
    BY <1>4, <2>1, DoneType
  <2>11. FlagsTyped' /\ ReadTyped' /\ CryptoTyped'
    BY <1>1, <2>1
  <2>12. MacTyped' /\ WriteTyped'
    BY <1>1, <2>1
  <2>13. PcsTyped'
    BY <1>1, <2>1 DEF Pcs, MacPcs
  <2>14. QueuesTyped'
    BY <1>1, <2>1, <2>2
  <2>15. HoldsTyped'
    BY <1>1, <2>1
  <2>16. OnceOnly'
    BY <1>1, <2>1, <2>2
  <2>. QED
    BY <2>11, <2>12, <2>13, <2>14, <2>15, <2>16
<1>16. CASE AuthTake
  <2>1. /\ Held = NULL /\ pc["mac"] = "take" /\ ~Encrypting
        /\ UNCHANGED <<flagVars, macVars>>
    BY <1>16 DEF AuthTake, MacPcs
  <2>2. CASE front("mac") = NULL \/ front("mac").action = "MAC"
    <3>1. /\ UNCHANGED <<queue, hold>>
          /\ \E to \in {"auth", "final"} : pc' = [pc EXCEPT !["mac"] = to]
      BY <1>16, <2>2 DEF AuthTake, Go
    <3>. QED
      BY <1>1, <2>1, <3>1 DEF Pcs, MacPcs
  <2>3. CASE front("mac") # NULL /\ front("mac").action # "MAC"
    <3>1. deque("mac")
      BY <1>16, <2>3 DEF AuthTake
    <3>2. /\ queue' \in [Queues -> Seq(Good)]
          /\ \A q \in Queues : Len(queue'[q]) <= Capacity
          /\ front("mac") \in Good /\ front("mac") # NULL
      BY <1>3, <2>3, <3>1
    <3>3. \/ pc' = [pc EXCEPT !["mac"] = "final"] /\ hold' = hold
          \/ pc' = [pc EXCEPT !["mac"] = "hash"] /\ hold' = [hold EXCEPT !["mac"] = front("mac")]
      BY <1>16, <2>3 DEF AuthTake, Go, Keep
    <3>11. FlagsTyped' /\ ReadTyped' /\ CryptoTyped'
      BY <1>1, <2>1, <2>3, <3>2, <3>3
    <3>12. MacTyped' /\ WriteTyped'
      BY <1>1, <2>1, <2>3, <3>2, <3>3
    <3>13. PcsTyped'
      <4>1. \E to \in {"final", "hash"} : pc' = [pc EXCEPT !["mac"] = to]
        BY <3>3
      <4>. QED
        BY <1>1, <2>1, <2>3, <4>1 DEF Pcs, MacPcs
    <3>14. QueuesTyped'
      BY <1>1, <2>1, <2>3, <3>2, <3>3
    <3>15. HoldsTyped'
      BY <1>1, <2>1, <2>3, <3>2, <3>3
    <3>16. OnceOnly'
      BY <1>1, <2>1, <2>3, <3>2, <3>3
    <3>. QED
      BY <3>11, <3>12, <3>13, <3>14, <3>15, <3>16
  <2>. QED
    BY <2>2, <2>3
<1>17. CASE AuthHeaderBad
  BY <1>1, <1>17 DEF AuthHeaderBad, Goto, Pcs, MacPcs, Errors
<1>18. CASE AuthHash
  <2>1. /\ pc["mac"] = "hash" /\ pc' = [pc EXCEPT !["mac"] = "pass"] /\ ~Encrypting
        /\ valid' = TRUE /\ macHeader' = FALSE /\ UNCHANGED <<error, queue>>
        /\ newFileSize' = IF macHeader THEN file.promised ELSE newFileSize
        /\ digest' = Append(digest, Data(Held))
        /\ hold' = [hold EXCEPT !["mac"] = [Held EXCEPT !.action = "WRITE"]]
    BY <1>18 DEF AuthHash, Goto, Keep, MacPcs
  <2>2. Held \in NoMac
    BY <2>1 DEF Held, NoMac
  <2>3. Data(Held) \in Pieces /\ [Held EXCEPT !.action = "WRITE"] \in Good
    BY <2>2, DataType, ActionType, GoodFacts DEF Actions
  <2>4. bytesWritten <= newFileSize'
    <3>1. /\ bytesWritten \in Nat /\ bytesWritten <= newFileSize
          /\ newFileSize \in {0, file.promised} /\ file.promised \in Nat
      BY <2>1, FileFacts
    <3>. QED
      BY ONLY <2>1, <3>1
  <2>11. FlagsTyped' /\ ReadTyped' /\ CryptoTyped'
    BY <1>1, <2>1
  <2>12. MacTyped' /\ WriteTyped'
    <3>1. MacTyped'
      <4>1. digest' = Append(digest, Data(Held)) /\ macHeader' \in BOOLEAN
        BY <2>1
      <4>2. Data(Held) \in Pieces
        BY <2>3
      <4>. QED
        BY <4>1, <4>2
    <3>. QED
      BY <1>1, <2>1, <2>4, <3>1
  <2>13. PcsTyped'
    BY <1>1, <2>1 DEF Pcs, MacPcs
  <2>14. QueuesTyped'
    BY <1>1, <2>1
  <2>15. HoldsTyped'
    BY <1>1, <2>1, <2>3, GoodFacts
  <2>16. OnceOnly'
    BY <1>1, <2>1
  <2>. QED
    BY <2>11, <2>12, <2>13, <2>14, <2>15, <2>16
<1>19. CASE AuthPass
  <2>1. /\ Held \in Good /\ pc["mac"] = "pass" /\ pc' = [pc EXCEPT !["mac"] = "auth"]
        /\ UNCHANGED <<flagVars, macVars>> /\ ~Encrypting
    BY <1>19 DEF AuthPass, Goto, Held, MacPcs
  <2>2. CASE queueIsFull(MacOut)
    BY <1>1, <1>19, <2>1, <2>2 DEF AuthPass, Pcs, MacPcs
  <2>3. CASE ~queueIsFull(MacOut)
    <3>1. Put(MacOut, Held) /\ hold' = [hold EXCEPT !["mac"] = NULL]
      BY <1>19, <2>3 DEF AuthPass, Keep
    <3>2. /\ queue' \in [Queues -> Seq(Good)]
          /\ \A q \in Queues : Len(queue'[q]) <= Capacity
      BY <1>4, <2>1, <3>1
    <3>. QED
      BY <1>1, <2>1, <3>1, <3>2 DEF Pcs, MacPcs
  <2>. QED
    BY <2>2, <2>3
<1>20. CASE AuthFinal
  <2>1. /\ pc["mac"] = "final" /\ ~Encrypting
        /\ error' \in Errors \cup {"none"} /\ hold' = [hold EXCEPT !["mac"] = NULL]
        /\ UNCHANGED <<valid, newFileSize, queue, macVars>>
        /\ \E to \in {"stored", "exit"} : pc' = [pc EXCEPT !["mac"] = to]
    BY <1>20 DEF AuthFinal, Go, Keep, MacPcs, Errors
  <2>11. FlagsTyped' /\ ReadTyped' /\ CryptoTyped'
    BY <1>1, <2>1
  <2>12. MacTyped' /\ WriteTyped'
    BY <1>1, <2>1
  <2>13. PcsTyped'
    BY <1>1, <2>1 DEF Pcs, MacPcs
  <2>14. QueuesTyped'
    BY <1>1, <2>1
  <2>15. HoldsTyped'
    BY <1>1, <2>1
  <2>16. OnceOnly'
    BY <1>1, <2>1
  <2>. QED
    BY <2>11, <2>12, <2>13, <2>14, <2>15, <2>16
<1>21. CASE AuthFetch
  <2>1. pc["mac"] = "fetch" /\ ~Encrypting /\ UNCHANGED <<flagVars, macVars>>
    BY <1>21 DEF AuthFetch, MacPcs
  <2>2. CASE front("mac") = NULL
    <3>1. UNCHANGED <<queue, hold>> /\ pc' = [pc EXCEPT !["mac"] = "stored"]
      BY <1>21, <2>2 DEF AuthFetch, Go
    <3>. QED
      BY <1>1, <2>1, <3>1 DEF Pcs, MacPcs
  <2>3. CASE front("mac") # NULL
    <3>1. /\ deque("mac") /\ hold' = [hold EXCEPT !["mac"] = front("mac")]
          /\ pc' = [pc EXCEPT !["mac"] = "verdict"]
      BY <1>21, <2>3 DEF AuthFetch, Go, Keep
    <3>2. /\ queue' \in [Queues -> Seq(Good)]
          /\ \A q \in Queues : Len(queue'[q]) <= Capacity
          /\ front("mac") \in Good
      BY <1>3, <2>3, <3>1
    <3>. QED
      BY <1>1, <2>1, <3>1, <3>2 DEF Pcs, MacPcs
  <2>. QED
    BY <2>2, <2>3
<1>22. CASE AuthVerdict
  <2>1. /\ pc["mac"] = "verdict" /\ ~Encrypting
        /\ error' \in Errors \cup {"none"} /\ hold' = [hold EXCEPT !["mac"] = NULL]
        /\ UNCHANGED <<valid, newFileSize, queue, macVars>>
        /\ \E to \in {"flush", "exit"} : pc' = [pc EXCEPT !["mac"] = to]
    BY <1>22 DEF AuthVerdict, Go, Keep, MacPcs, Errors
  <2>11. FlagsTyped' /\ ReadTyped' /\ CryptoTyped'
    BY <1>1, <2>1
  <2>12. MacTyped' /\ WriteTyped'
    BY <1>1, <2>1
  <2>13. PcsTyped'
    BY <1>1, <2>1 DEF Pcs, MacPcs
  <2>14. QueuesTyped'
    BY <1>1, <2>1
  <2>15. HoldsTyped'
    BY <1>1, <2>1
  <2>16. OnceOnly'
    BY <1>1, <2>1
  <2>. QED
    BY <2>11, <2>12, <2>13, <2>14, <2>15, <2>16
<1>. QED
  BY <1>1, <1>5, <1>6, <1>7, <1>8, <1>9, <1>10, <1>11, <1>12, <1>13, <1>14, <1>16, <1>17, <1>18, <1>19, <1>20, <1>21, <1>22 DEF Mac

\* The steps of the write thread.
LEMMA WriteTypes ==
  TypeInv /\ WriteStep => TypeInv'
<1>. SUFFICES ASSUME TypeInv, WriteStep PROVE TypeInv'
  OBVIOUS
<1>1. UNCHANGED <<file, readVars, cryptoVars, macVars>> /\ Started /\ Writer
      /\ Good' = Good /\ Raw' = Raw /\ NoMac' = NoMac /\ (TooSmall <=> TooSmall')
  <2>1. UNCHANGED file
    BY DEF WriteStep, Writer, WriteOpen, WriteTurn, WriteTake, WriteChunk, WriteFinish,
           WriteRename, WriteStop
  <2>. QED
    BY <2>1, SameFile DEF WriteStep
<1>. USE PipelineAssumption
     DEF TypeInv, FlagsTyped, PcsTyped, QueuesTyped, HoldsTyped, ReadTyped,
         CryptoTyped, MacTyped, WriteTyped, OnceOnly, Threads, Queues,
         Launched, Started, readVars, cryptoVars, macVars, flagVars, writeVars
<1>2. CASE WriteOpen
  <2>1. /\ pc["write"] = "start" /\ error' \in Errors \cup {"none"}
        /\ UNCHANGED <<running, valid, newFileSize, queue, hold, bytesWritten, target>>
    BY <1>2 DEF WriteOpen, Errors
  <2>2. \/ temp' = <<>> /\ pc' = [pc EXCEPT !["write"] = "loop"]
        \/ temp' = temp /\ pc' = [pc EXCEPT !["write"] = "exit"]
    BY <1>2 DEF WriteOpen, Go
  <2>3. CASE temp' = <<>> /\ pc' = [pc EXCEPT !["write"] = "loop"]
    <3>1. temp' \in Seq(Chunks) /\ temp' # NULL
      BY <2>3, FileNotNull
    <3>. QED
      BY <1>1, <2>1, <2>3, <3>1 DEF Pcs, WritePcs
  <2>4. CASE temp' = temp /\ pc' = [pc EXCEPT !["write"] = "exit"]
    BY <1>1, <2>1, <2>4 DEF Pcs, WritePcs
  <2>. QED
    BY <2>2, <2>3, <2>4
<1>3. CASE WriteTurn
  BY <1>1, <1>3 DEF WriteTurn, Goto, Pcs, WritePcs
<1>4. CASE WriteTake
  <2>1. pc["write"] = "take" /\ UNCHANGED <<flagVars, writeVars>>
    BY <1>4 DEF WriteTake
  <2>2. /\ queue' \in [Queues -> Seq(Good)]
        /\ \A q \in Queues : Len(queue'[q]) <= Capacity
        /\ queue'["crypto"] = queue["crypto"] /\ queue'["mac"] = queue["mac"]
        /\ front("write") # NULL => front("write") \in Good
    <3>1. CASE front("write") = NULL
      BY <1>4, <3>1 DEF WriteTake
    <3>2. CASE front("write") # NULL
      <4>1. /\ queue["write"] # <<>> /\ front("write") \in Good
            /\ queue' = [queue EXCEPT !["write"] = Tail(@)]
        BY <1>4, <3>2, FrontType DEF WriteTake, deque
      <4>2. /\ queue' \in [Queues -> Seq(Good)]
            /\ Len(queue'["write"]) = Len(queue["write"]) - 1
            /\ \A q \in Queues \ {"write"} : queue'[q] = queue[q]
        BY <4>1, TakeType
      <4>3. /\ Len(queue["write"]) \in Nat /\ Len(queue["write"]) <= Capacity
            /\ Capacity \in Nat
        OBVIOUS
      <4>4. Len(queue'["write"]) <= Capacity
        BY <4>2, <4>3
      <4>. QED
        BY <4>1, <4>2, <4>4
    <3>. QED
      BY <3>1, <3>2
  <2>3. \/ /\ \E to \in {"finish", "loop"} : pc' = [pc EXCEPT !["write"] = to]
           /\ hold' = hold
        \/ /\ pc' = [pc EXCEPT !["write"] = "write"]
           /\ front("write") # NULL /\ hold' = [hold EXCEPT !["write"] = front("write")]
    BY <1>4 DEF WriteTake, Go, Keep
  <2>. QED
    BY <1>1, <2>1, <2>2, <2>3 DEF Pcs, WritePcs
<1>5. CASE WriteChunk
  <2>1. /\ pc["write"] = "write" /\ error' \in Errors \cup {"none"}
        /\ hold["write"] \in Good
        /\ UNCHANGED <<running, valid, newFileSize, queue, target>>
    BY <1>5 DEF WriteChunk, Errors
  <2>2. CASE /\ Go("write", "loop")
             /\ temp' = Append(temp, [Data(hold["write"]) EXCEPT !.size = BytesToWrite])
             /\ bytesWritten' = bytesWritten + BytesToWrite
             /\ Keep("write", NULL)
    <3>1. hold["write"] \in Chunks /\ hold["write"].size \in Nat
      BY <2>1, GoodFacts DEF ChunkOK, HeaderSize
    <3>2. newFileSize \in Nat
      BY FileFacts
    <3>3. /\ BytesToWrite \in Nat
          /\ ~Encrypting => bytesWritten + BytesToWrite <= newFileSize
      BY <3>1, <3>2 DEF BytesToWrite
    <3>. DEFINE piece == [Data(hold["write"]) EXCEPT !.size = BytesToWrite]
    <3>4. piece \in Chunks
      BY <3>1, <3>3, DataType
    <3>5. temp \in Seq(Chunks) /\ temp' = Append(temp, piece)
      BY <2>1, <2>2
    <3>. HIDE DEF piece
    <3>6. temp' \in Seq(Chunks) /\ temp' # NULL
      <4>1. temp' \in Seq(Chunks)
        BY <3>4, <3>5
      <4>. QED
        BY <4>1, FileNotNull
    <3>7. WriteTyped'
      BY <2>1, <2>2, <3>3, <3>6
    <3>8. pc' = [pc EXCEPT !["write"] = "loop"] /\ hold' = [hold EXCEPT !["write"] = NULL]
      BY <2>2 DEF Go, Keep
    <3>. QED
      BY <1>1, <2>1, <3>7, <3>8 DEF Pcs, WritePcs
  <2>3. CASE Go("write", "finish") /\ UNCHANGED <<temp, bytesWritten, hold>>
    BY <1>1, <2>1, <2>3 DEF Go, Pcs, WritePcs
  <2>. QED
    BY <1>5, <2>2, <2>3 DEF WriteChunk
<1>6. CASE WriteFinish
  BY <1>1, <1>6 DEF WriteFinish, Goto, Pcs, WritePcs
<1>7. CASE WriteRename
  BY <1>1, <1>7 DEF WriteRename, Goto, Pcs, WritePcs
<1>8. CASE WriteStop
  <2>1. /\ pc["write"] = "stop" /\ pc' = [pc EXCEPT !["write"] = "exit"]
        /\ running' \in BOOLEAN /\ UNCHANGED <<error, valid, newFileSize, queue, hold, writeVars>>
    BY <1>8 DEF WriteStop, Goto
  <2>. QED
    BY <1>1, <2>1 DEF Pcs, WritePcs
<1>. QED
  BY <1>1, <1>2, <1>3, <1>4, <1>5, <1>6, <1>7, <1>8 DEF Writer

\* The steps of main.
LEMMA MainTypes ==
  TypeInv /\ (MainStep \/ BarFull) => TypeInv'
<1>. SUFFICES ASSUME TypeInv, MainStep \/ BarFull PROVE TypeInv'
  OBVIOUS
<1>1. UNCHANGED <<file, flagVars, hold, readVars, cryptoVars, macVars, bytesWritten, target>>
      /\ Good' = Good /\ Raw' = Raw /\ NoMac' = NoMac /\ (TooSmall <=> TooSmall')
  <2>1. UNCHANGED <<file, flagVars, hold, readVars, cryptoVars, macVars, bytesWritten, target>>
    BY DEF MainStep, Refuse, StartThreads, LeaveBar, JoinAndCleanUp, BarFull, threadVars, writeVars
  <2>. QED
    BY <2>1, SameFile
<1>. USE PipelineAssumption
     DEF TypeInv, FlagsTyped, PcsTyped, QueuesTyped, HoldsTyped, ReadTyped,
         CryptoTyped, MacTyped, WriteTyped, OnceOnly, Threads, Queues,
         Launched, readVars, cryptoVars, macVars, flagVars, writeVars, threadVars
<1>2. CASE Refuse
  <2>1. /\ pc["main"] = "start" /\ pc' = [pc EXCEPT !["main"] = "over"]
        /\ UNCHANGED <<queue, writeVars>>
    BY <1>2 DEF Refuse, Return, Go
  <2>2. PcsTyped'
    BY <2>1 DEF Pcs, MainPcs
  <2>. QED
    BY <1>1, <2>1, <2>2
<1>3. CASE StartThreads
  <2>1. /\ ~TooSmall /\ UNCHANGED writeVars
        /\ \E to \in {"bar", "join"} : pc' = [pc EXCEPT !["main"] = to]
    BY <1>3 DEF StartThreads, Goto
  <2>2. CASE Encrypting
    <3>. DEFINE first == Chunk("ENCRYPT", HeaderId, <<>>, <<>>, HeaderSize)
    <3>1. first \in Good /\ first.seal = <<>> /\ first.action = "ENCRYPT"
      <4>1. /\ "ENCRYPT" \in Actions \ {"data"} /\ HeaderId \in Int
            /\ HeaderId \in {HeaderId, MacId, NoId} \cup 1 .. DataChunks(file.size)
            /\ <<>> \in Seq(Int) /\ Len(<<>>) <= 1 /\ <<>> \in Seq(Pieces)
            /\ HeaderSize \in 0 .. HeaderSize + MaxChunk /\ HeaderSize \in Int
        BY DEF Actions, HeaderId, HeaderSize
      <4>2. first \in Good
        BY ONLY <4>1, GoodChunk
      <4>. QED
        BY <4>2 DEF Chunk
    <3>. HIDE DEF first
    <3>2. first \in Raw
      BY <3>1 DEF Raw
    <3>3. queue' = [queue EXCEPT !["crypto"] = <<first>>]
      BY <1>3, <2>2 DEF StartThreads, first
    <3>. QED
      BY <1>1, <2>1, <2>2, <3>1, <3>2, <3>3 DEF Pcs, MainPcs
  <2>3. CASE ~Encrypting
    BY <1>1, <1>3, <2>1, <2>3 DEF StartThreads, Pcs, MainPcs
  <2>. QED
    BY <2>2, <2>3
<1>4. CASE LeaveBar
  BY <1>1, <1>4 DEF LeaveBar, Goto, Pcs, MainPcs
<1>5. CASE BarFull
  BY <1>1, <1>5 DEF BarFull, Goto, Pcs, MainPcs
<1>6. CASE JoinAndCleanUp
  <2>1. /\ \A t \in Threads : pc[t] = "exit"
        /\ pc' = [pc EXCEPT !["main"] = "over"]
        /\ queue' = [q \in Queues |-> <<>>]
        /\ temp' = temp \/ temp' = NULL
    BY <1>6 DEF JoinAndCleanUp, Return, Go
  <2>. QED
    BY <1>1, <2>1 DEF Pcs, MainPcs
<1>. QED
  BY <1>2, <1>3, <1>4, <1>5, <1>6 DEF MainStep

\* Every step preserves the types.
LEMMA TypeStep ==
  TypeInv /\ [Next]_vars => TypeInv'
<1>1. ASSUME TypeInv, UNCHANGED vars PROVE TypeInv'
  <2>1. Good' = Good /\ Raw' = Raw /\ NoMac' = NoMac /\ (TooSmall <=> TooSmall')
    BY <1>1, SameFile DEF vars, pipelineVars
  <2>. QED
    BY <1>1, <2>1
    DEF TypeInv, FlagsTyped, PcsTyped, QueuesTyped, HoldsTyped, ReadTyped,
        CryptoTyped, MacTyped, WriteTyped, OnceOnly, Launched, vars, pipelineVars,
        threadVars, readVars, cryptoVars, macVars, writeVars, flagVars
<1>. QED
  BY <1>1, ReadTypes, CryptoTypes, MacTypes, WriteTypes, MainTypes
  DEF Next, Sleep, Terminated

\* The type invariant of Controller holds in every reachable state.
THEOREM TypeCorrect ==
  Spec => []TypeOK
<1>1. Init => TypeInv
  BY TypeInit
<1>2. TypeInv /\ [Next]_vars => TypeInv'
  BY TypeStep
<1>3. TypeInv => TypeOK
  BY GoodFacts DEF TypeInv, FlagsTyped, QueuesTyped, HoldsTyped, ReadTyped, WriteTyped, TypeOK
<1>. QED
  BY <1>1, <1>2, <1>3, PTL DEF Spec


-----------------------------------------------------------------------------
(***************************************************************************)
(* What one encryption does to its files, for every file size, chunk and   *)
(* block size and queue capacity.  The invariant: as long as no error is   *)
(* reported, the k-th chunk that enters a queue is chunk k of the file, as *)
(* the threads before that queue leave it, and each queue holds those put  *)
(* into it and not yet taken.                                              *)
(***************************************************************************)
\* The chunks of the file: the header is number 0, then Total data chunks.
Total == DataChunks(file.plain)
SizeOf(k) == IF k = HeaderId THEN HeaderSize ELSE getPadSize(PieceSize(file.plain, k))

\* What main and the read thread put into a queue, what it becomes in the
\* crypto thread, and what that thread and the MAC thread pass on.
PlainItems ==
  [k \in Nat |-> IF k <= Total THEN Chunk("ENCRYPT", k, <<>>, <<>>, SizeOf(k)) ELSE DONE]

CipherItems ==
  [k \in Nat |-> Chunk("ENCRYPT", k, <<k - 1>>, <<>>, SizeOf(k))]

SealedItems ==
  [k \in Nat |-> IF k <= Total THEN Chunk("GEN_MAC", k, <<k - 1>>, <<>>, SizeOf(k)) ELSE DONE]

OutItems ==
  [k \in Nat |-> IF k <= Total THEN Chunk("DECRYPT", k, <<k - 1>>, <<>>, SizeOf(k))
                 ELSE IF k = Total + 1
                 THEN Chunk("MAC", MacId, <<>>, CipherText(file.plain), Block)
                 ELSE DONE]

\* What is hashed and what is written in the end.
Hashed == CipherText(file.plain)
Output == EncryptedFile(file.plain)

\* Nothing of this changes during a run.
Fixed == <<Total, PlainItems, CipherItems, SealedItems, OutItems, Hashed, Output>>

\* How many items each thread has put into the queue behind it and taken from
\* the one before it.  The MAC thread leaves DONE in its queue, or keeps it.
ReadGave ==
  IF pc["read"] = "exit" THEN Total + 2 ELSE 1 + DataChunks(bytesRead) - HeldCount("read")

CryptoTook == IF pc["crypto"] \in {"flush", "exit"} THEN Total + 2 ELSE chain + 1
CryptoGave == IF pc["crypto"] = "exit" THEN Total + 2 ELSE chain + 1 - HeldCount("crypto")

MacTook == IF hold["mac"] = DONE THEN Len(digest) + 1 ELSE Len(digest)
MacGave ==
  IF pc["mac"] = "exit" THEN Total + 3
  ELSE IF pc["mac"] = "flush" THEN Total + 2
  ELSE IF pc["mac"] = "put" THEN Len(digest) - 1
  ELSE Len(digest)

WriteTook ==
  IF pc["write"] \in {"finish", "rename", "stop", "exit"} THEN Total + 3
  ELSE IF temp = NULL THEN 0
  ELSE Len(temp) + HeldCount("write")

PlainInOrder ==
  /\ Len(queue["crypto"]) = ReadGave - CryptoTook
  /\ Holds(queue["crypto"], PlainItems, CryptoTook)

SealedInOrder ==
  /\ Len(queue["mac"]) = CryptoGave - MacTook
  /\ Holds(queue["mac"], SealedItems, MacTook)

OutInOrder ==
  /\ Len(queue["write"]) = MacGave - WriteTook
  /\ Holds(queue["write"], OutItems, WriteTook)

ReaderOK ==
  /\ pc["read"] # "start" => origFileSize = file.size
  /\ bytesRead = file.size \/ bytesRead = DataChunks(bytesRead) * MaxChunk
  /\ pc["read"] \in {"flush", "exit"} => bytesRead = file.size
  /\ IF pc["read"] = "queue"
     THEN bytesRead > 0 /\ hold["read"] = PlainItems[DataChunks(bytesRead)]
     ELSE hold["read"] = NULL

CipherOK ==
  /\ chain \in -1 .. Total
  /\ header <=> chain = -1
  /\ hold["crypto"] # NULL => chain >= 0 /\ hold["crypto"] = CipherItems[chain]
  /\ pc["crypto"] \in {"flush", "exit"} =>
       hold["crypto"] = NULL /\ chain = Total /\ pc["read"] = "exit"

DigestOK ==
  /\ Len(digest) <= Total + 1
  /\ \A i \in 1 .. Len(digest) : digest[i] = Hashed[i]
  /\ IF pc["mac"] = "put"
     THEN Len(digest) >= 1 /\ hold["mac"] = OutItems[Len(digest) - 1]
     ELSE hold["mac"] \in {NULL, DONE}
  /\ hold["mac"] = DONE \/ pc["mac"] \in {"append", "flush", "exit"} =>
       Len(digest) = Total + 1 /\ pc["crypto"] = "exit"

OutputOK ==
  /\ pc["write"] = "start" => temp = NULL /\ target = NULL /\ hold["write"] = NULL
  /\ pc["write"] \in {"loop", "take", "write"} =>
       /\ target = NULL
       /\ Len(temp) <= Total + 2
       /\ \A i \in 1 .. Len(temp) : temp[i] = Output[i]
       /\ IF pc["write"] = "write"
          THEN hold["write"] = OutItems[Len(temp)] /\ Len(temp) <= Total + 1
          ELSE hold["write"] = NULL
  /\ pc["write"] \in {"finish", "rename", "stop", "exit"} => pc["mac"] = "exit"
  /\ pc["write"] \in {"finish", "rename"} => target = NULL /\ temp = Output
  /\ pc["write"] \in {"stop", "exit"} =>
       \/ target = NULL /\ temp = Output
       \/ target = Output

\* The state before the threads exist.
NotYet ==
  /\ running /\ error = "none" /\ header
  /\ queue = [q \in Queues |-> <<>>]
  /\ hold = [t \in Threads |-> NULL]
  /\ \A t \in Threads : pc[t] = "start"
  /\ bytesRead = 0 /\ chain = -1 /\ digest = <<>> /\ temp = NULL /\ target = NULL

\* What holds whatever has failed.
Fate ==
  /\ ~running => pc["write"] = "exit"
  /\ pc["write"] = "start" => temp = NULL
  /\ error # "none" => /\ running /\ target = NULL
                       /\ pc["write"] \notin {"rename", "stop"}
  /\ target # NULL => target = Output
  /\ status = NULL <=> pc["main"] # "over"
  /\ status = "SUCCESS" => target = Output \/ (target = NULL /\ temp = Output)
  /\ status # NULL /\ status # "SUCCESS" => target = NULL
  /\ pc["main"] = "over" =>
       (\A t \in Threads : pc[t] = "exit") \/ (\A t \in Threads : pc[t] = "start")

Healthy == error = "none" /\ Launched

EncInv ==
  /\ Fate
  /\ pc["main"] = "start" => NotYet
  /\ Healthy => /\ PlainInOrder /\ SealedInOrder /\ OutInOrder
                /\ ReaderOK /\ CipherOK /\ DigestOK /\ OutputOK

-----------------------------------------------------------------------------
(* The file and its chunks *)

\* The number of chunks, and how far the reader has come.
LEMMA TotalFacts ==
  ASSUME TypeInv, Encrypting
  PROVE  /\ Total \in Nat /\ file.size \in Nat /\ file.plain = file.size
         /\ Total = DataChunks(file.size) /\ bytesRead \in 0 .. file.size
         /\ DataChunks(bytesRead) \in 0 .. Total
<1>1. file.size \in Nat /\ file.plain = file.size /\ bytesRead \in 0 .. file.size
      /\ MaxChunk \in Nat \ {0}
  BY FileFacts, PipelineAssumption DEF TypeInv, FlagsTyped, ReadTyped
<1>2. Total = DataChunks(file.size) /\ Total \in Nat
  BY <1>1, DataChunksFacts DEF Total
<1>3. DataChunks(bytesRead) \in Nat
  BY <1>1, DataChunksFacts
<1>4. DataChunks(bytesRead) <= Total
  <2>1. DataChunks(bytesRead) * MaxChunk < bytesRead + MaxChunk
    BY <1>1, DataChunksFacts
  <2>2. file.size <= Total * MaxChunk
    BY <1>1, <1>2, DataChunksFacts
  <2>3. DataChunks(bytesRead) * MaxChunk < Total * MaxChunk + MaxChunk
    BY <1>1, <1>2, <1>3, <2>1, <2>2
  <2>. QED
    BY <1>2, <1>3, <2>3, MulLess
<1>. QED
  BY <1>1, <1>2, <1>3, <1>4

LEMMA SizeType ==
  ASSUME TypeInv, Encrypting, NEW k \in 0 .. Total
  PROVE  SizeOf(k) \in Int
<1>. DEFINE n == file.plain
<1>1. n \in Nat /\ Total = DataChunks(n) /\ Total \in Nat /\ MaxChunk \in Nat \ {0}
  BY TotalFacts, PipelineAssumption
<1>2. CASE k = 0
  BY <1>2, PipelineAssumption DEF SizeOf, HeaderId, HeaderSize
<1>3. CASE k \in 1 .. Total
  <2>1. PieceSize(n, k) \in Nat
    <3>1. Total * MaxChunk < n + MaxChunk
      BY <1>1, DataChunksFacts
    <3>2. (k - 1) * MaxChunk <= (Total - 1) * MaxChunk
      BY <1>1, <1>3
    <3>. QED
      BY <1>1, <1>3, <3>1, <3>2 DEF PieceSize
  <2>. QED
    BY <1>3, <2>1, PadFacts DEF SizeOf, HeaderId
<1>. QED
  BY <1>1, <1>2, <1>3

\* What each thread makes of chunk k.
LEMMA CipherItem ==
  ASSUME TypeInv, Encrypting, NEW k \in 0 .. Total
  PROVE  /\ PlainItems[k].action # "DONE"
         /\ Encipher(PlainItems[k], k - 1) = CipherItems[k]
         /\ CipherItems[k].action # "DONE"
         /\ ChainOf(CipherItems[k]) = k
<1>. DEFINE size == SizeOf(k)
<1>1. k \in Nat /\ k <= Total /\ size \in Int
  BY TotalFacts, SizeType
<1>2. /\ PlainItems[k] = Chunk("ENCRYPT", k, <<>>, <<>>, size)
      /\ CipherItems[k] = Chunk("ENCRYPT", k, <<k - 1>>, <<>>, size)
  BY <1>1 DEF PlainItems, CipherItems
<1>. HIDE DEF size
<1>3. Append(<<>>, k - 1) = <<k - 1>>
  BY <1>1
<1>. QED
  BY <1>1, <1>2, <1>3 DEF Chunk, Encipher, ChainOf

LEMMA SealedItem ==
  ASSUME TypeInv, Encrypting, NEW k \in 0 .. Total
  PROVE  /\ [CipherItems[k] EXCEPT !.action = "GEN_MAC"] = SealedItems[k]
         /\ SealedItems[k].action = "GEN_MAC"
         /\ Data(SealedItems[k]) = Hashed[k + 1]
         /\ [SealedItems[k] EXCEPT !.action = "DECRYPT"] = OutItems[k]
         /\ OutItems[k].action # "DONE"
         /\ Data(OutItems[k]) = Hashed[k + 1]
<1>. DEFINE size == SizeOf(k)
            seal == <<k - 1>>
<1>1. k \in Nat /\ k <= Total /\ size \in Int /\ Total \in Nat
  BY TotalFacts, SizeType
<1>2. /\ CipherItems[k] = Chunk("ENCRYPT", k, seal, <<>>, size)
      /\ SealedItems[k] = Chunk("GEN_MAC", k, seal, <<>>, size)
      /\ OutItems[k] = Chunk("DECRYPT", k, seal, <<>>, size)
  BY <1>1 DEF CipherItems, SealedItems, OutItems
<1>3. Hashed[k + 1] = Data(Chunk("data", k, seal, <<>>, size))
  <2>1. k + 1 \in 1 .. Total + 1 /\ k + 1 - 1 = k
    BY <1>1
  <2>2. Hashed[k + 1] = CipherPiece(file.plain, k)
    BY <2>1 DEF Hashed, CipherText, Total
  <2>. QED
    BY <2>2 DEF CipherPiece, SizeOf
<1>. HIDE DEF size, seal
<1>4. /\ [Chunk("ENCRYPT", k, seal, <<>>, size) EXCEPT !.action = "GEN_MAC"]
           = Chunk("GEN_MAC", k, seal, <<>>, size)
      /\ [Chunk("GEN_MAC", k, seal, <<>>, size) EXCEPT !.action = "DECRYPT"]
           = Chunk("DECRYPT", k, seal, <<>>, size)
      /\ Data(Chunk("GEN_MAC", k, seal, <<>>, size)) = Data(Chunk("data", k, seal, <<>>, size))
      /\ Data(Chunk("DECRYPT", k, seal, <<>>, size)) = Data(Chunk("data", k, seal, <<>>, size))
      /\ Chunk("GEN_MAC", k, seal, <<>>, size).action = "GEN_MAC"
      /\ Chunk("DECRYPT", k, seal, <<>>, size).action = "DECRYPT"
  BY DEF Chunk, Data
<1>. QED
  BY <1>2, <1>3, <1>4

LEMMA LastItems ==
  ASSUME TypeInv, Encrypting
  PROVE  /\ \A k \in Nat : k > Total => PlainItems[k] = DONE /\ SealedItems[k] = DONE
         /\ \A k \in Nat : k > Total + 1 => OutItems[k] = DONE
         /\ OutItems[Total + 1] = Chunk("MAC", MacId, <<>>, Hashed, Block)
         /\ OutItems[Total + 1].action # "DONE"
         /\ Data(OutItems[Total + 1]) = Output[Total + 2]
         /\ PlainItems[0] = Chunk("ENCRYPT", HeaderId, <<>>, <<>>, HeaderSize)
<1>1. Total \in Nat
  BY TotalFacts
<1>2. \A k \in Nat : k > Total => PlainItems[k] = DONE /\ SealedItems[k] = DONE
  BY <1>1 DEF PlainItems, SealedItems
<1>3. \A k \in Nat : k > Total + 1 => OutItems[k] = DONE
  BY <1>1 DEF OutItems
<1>4. OutItems[Total + 1] = Chunk("MAC", MacId, <<>>, Hashed, Block)
  BY <1>1 DEF OutItems, Hashed
<1>5. OutItems[Total + 1].action # "DONE"
  BY <1>4 DEF Chunk
<1>6. PlainItems[0] = Chunk("ENCRYPT", HeaderId, <<>>, <<>>, HeaderSize)
  BY <1>1 DEF PlainItems, SizeOf, HeaderId
<1>7. Data(OutItems[Total + 1]) = Output[Total + 2]
  <2>1. Hashed \in Seq(Pieces) /\ Len(Hashed) = Total + 1
    BY TotalFacts, CipherTextType DEF Hashed, Total
  <2>2. Output = Append(Hashed, MacPiece(file.plain))
    BY DEF Output, EncryptedFile, Hashed
  <2>3. Output[Total + 2] = MacPiece(file.plain)
    BY <1>1, <2>1, <2>2
  <2>4. MacPiece(file.plain) = Data(Chunk("data", MacId, <<>>, Hashed, Block))
    BY DEF MacPiece, Hashed
  <2>5. Data(Chunk("MAC", MacId, <<>>, Hashed, Block)) = Data(Chunk("data", MacId, <<>>, Hashed, Block))
    BY DEF Data, Chunk
  <2>. QED
    BY <1>4, <2>3, <2>4, <2>5
<1>. QED
  BY <1>2, <1>3, <1>4, <1>5, <1>6, <1>7

\* The file written is one chunk longer than what is hashed, by the MAC.
LEMMA OutputFacts ==
  ASSUME TypeInv, Encrypting
  PROVE  /\ Hashed \in Seq(Pieces) /\ Len(Hashed) = Total + 1
         /\ Output \in Seq(Chunks) /\ Len(Output) = Total + 2
         /\ \A i \in 1 .. Total + 1 : Output[i] = Hashed[i]
         /\ Output # NULL
<1>1. Hashed \in Seq(Pieces) /\ Len(Hashed) = Total + 1 /\ Total \in Nat
  BY TotalFacts, CipherTextType DEF Hashed, Total
<1>2. Output = Append(Hashed, MacPiece(file.plain))
  BY DEF Output, EncryptedFile, Hashed
<1>3. Pieces \subseteq Chunks
  <2>1. {<<>>} \subseteq Seq(Pieces)
    OBVIOUS
  <2>. QED
    BY <2>1 DEF Pieces, Chunks
<1>4. Hashed \in Seq(Chunks)
  BY <1>1, <1>3
<1>5. MacPiece(file.plain) \in Chunks
  <2>1. "data" \in Actions /\ MacId \in Int /\ Block \in Int /\ <<>> \in Seq(Int)
    BY PipelineAssumption DEF Actions, MacId
  <2>2. Chunk("data", MacId, <<>>, Hashed, Block) \in Chunks
    BY <1>1, <2>1 DEF Chunk, Chunks
  <2>3. Data(Chunk("data", MacId, <<>>, Hashed, Block)) \in Chunks
    BY <2>1, <2>2 DEF Data, Chunks
  <2>. QED
    BY <2>3 DEF MacPiece, Hashed
<1>6. Output \in Seq(Chunks) /\ Len(Output) = Total + 2
      /\ \A i \in 1 .. Total + 1 : Output[i] = Hashed[i]
  BY <1>1, <1>2, <1>4, <1>5
<1>. QED
  BY <1>1, <1>6, FileNotNull

-----------------------------------------------------------------------------
(* The invariant *)

LEMMA FixedFacts ==
  ASSUME UNCHANGED file
  PROVE  UNCHANGED Fixed
  BY DEF Fixed, Total, PlainItems, CipherItems, SealedItems, OutItems, Hashed, Output, SizeOf

LEMMA EncryptInit ==
  Init /\ Encrypting => EncInv
<1>. SUFFICES ASSUME Init, Encrypting PROVE EncInv
  OBVIOUS
<1>1. /\ running /\ error = "none" /\ header
      /\ queue = [q \in Queues |-> <<>>] /\ hold = [t \in Threads |-> NULL]
      /\ bytesRead = 0 /\ chain = -1 /\ digest = <<>> /\ temp = NULL /\ target = NULL
      /\ status = NULL
  BY DEF Init, PipelineInit, ReadInit, CryptoInit, MacInit, WriteInit, IV
<1>2. \A t \in Threads \cup {"main"} : pc[t] = "start"
  <2>1. pc = [t \in Threads \cup {"main"} |-> "start"]
    BY DEF Init, PipelineInit
  <2>. QED
    BY ONLY <2>1
<1>3. pc["main"] = "start" /\ ~Launched
  BY <1>2 DEF Launched
<1>4. Fate
  BY <1>1, <1>3, StatusAssumption DEF Fate, Statuses
<1>5. NotYet
  BY <1>1, <1>2 DEF NotYet
<1>. QED
  BY <1>3, <1>4, <1>5 DEF EncInv, Healthy

\* As long as some thread before the write thread is there and nothing is
\* reported, the target is untouched and the run goes on.
LEMMA StillRunning ==
  ASSUME TypeInv, EncInv, Encrypting, Started,
         pc["read"] # "exit" \/ pc["crypto"] # "exit" \/ pc["mac"] # "exit"
  PROVE  /\ running /\ target = NULL
         /\ pc["write"] \notin {"rename", "stop"}
         /\ error = "none" => KeepGoing /\ pc["write"] \notin {"finish", "exit"}
<1>1. CASE error = "none"
  <2>1. Healthy
    BY <1>1 DEF Healthy, Started, Launched
  <2>2. pc["mac"] # "exit"
    BY <2>1 DEF EncInv, CipherOK, DigestOK
  <2>3. pc["write"] \notin {"finish", "rename", "stop", "exit"}
    BY <2>1, <2>2 DEF EncInv, OutputOK
  <2>4. pc["write"] \in {"start", "loop", "take", "write"}
    BY <2>3 DEF TypeInv, PcsTyped, WritePcs
  <2>5. target = NULL
    BY <2>1, <2>4 DEF EncInv, OutputOK
  <2>6. running
    BY <2>4 DEF EncInv, Fate
  <2>. QED
    BY <1>1, <2>3, <2>5, <2>6 DEF KeepGoing
<1>2. CASE error # "none"
  BY <1>2 DEF EncInv, Fate
<1>. QED
  BY <1>1, <1>2

\* The chunk the read thread cuts off, and how far it comes.
LEMMA ReadNext ==
  ASSUME TypeInv, EncInv, Encrypting, Healthy, bytesRead < origFileSize
  PROVE  LET next == bytesRead + PlainChunk.size
         IN  /\ PlainChunk.chunk = PlainItems[DataChunks(next)]
             /\ DataChunks(next) = DataChunks(bytesRead) + 1
             /\ next = file.size \/ next = DataChunks(next) * MaxChunk
             /\ next > 0
<1>. DEFINE r == DataChunks(bytesRead)
            size == IF Rest >= MaxChunk THEN MaxChunk ELSE Rest
            next == bytesRead + size
<1>1. /\ file.size \in Nat /\ bytesRead \in Nat /\ r \in Nat /\ Total \in Nat /\ file.plain = file.size
      /\ MaxChunk \in Nat \ {0} /\ Rest = file.size - bytesRead
      /\ bytesRead < file.size
  BY TotalFacts, PipelineAssumption DEF Rest, TypeInv, ReadTyped
<1>2. bytesRead = r * MaxChunk
  BY <1>1 DEF EncInv, ReaderOK
<1>. HIDE DEF r
<1>3. size \in 1 .. MaxChunk /\ next \in Nat /\ next <= file.size
      /\ (size = MaxChunk \/ next = file.size)
  BY <1>1
<1>4. (r + 1) * MaxChunk = bytesRead + MaxChunk
  BY <1>1, <1>2
<1>. HIDE DEF size
<1>5. DataChunks(next) = r + 1
  BY <1>1, <1>3, <1>4, DataChunksUnique
<1>6. r + 1 <= Total /\ r + 1 \in Nat
  <2>1. file.size <= Total * MaxChunk
    BY <1>1, DataChunksFacts DEF Total
  <2>2. (r + 1) * MaxChunk < Total * MaxChunk + MaxChunk
    BY <1>1, <1>3, <1>4, <2>1
  <2>. QED
    BY <1>1, <2>2, MulLess
<1>7. bytesRead \div MaxChunk = r
  <2>1. /\ bytesRead \div MaxChunk \in Nat
        /\ (bytesRead \div MaxChunk) * MaxChunk <= bytesRead
        /\ bytesRead < (bytesRead \div MaxChunk) * MaxChunk + MaxChunk
    BY <1>1, DivFacts
  <2>2. /\ (bytesRead \div MaxChunk) * MaxChunk < r * MaxChunk + MaxChunk
        /\ r * MaxChunk < (bytesRead \div MaxChunk) * MaxChunk + MaxChunk
    BY <1>1, <1>2, <2>1
  <2>. QED
    BY <1>1, <2>1, <2>2, MulLess
<1>8. PieceSize(file.plain, r + 1) = size
  <2>1. (r + 1) * MaxChunk <= file.plain => size = MaxChunk
    BY <1>1, <1>4 DEF size
  <2>2. (r + 1 - 1) * MaxChunk = bytesRead
    BY <1>1, <1>2
  <2>3. ~((r + 1) * MaxChunk <= file.plain) => size = file.plain - bytesRead
    BY <1>1, <1>4 DEF size
  <2>. QED
    BY <1>1, <1>3, <2>1, <2>2, <2>3 DEF PieceSize
<1>9. SizeOf(r + 1) = getPadSize(size)
  BY <1>1, <1>8 DEF SizeOf, HeaderId
<1>10. PlainChunk.size = size
       /\ PlainChunk.chunk = Chunk("ENCRYPT", bytesRead \div MaxChunk + 1, <<>>, <<>>, getPadSize(size))
  BY DEF PlainChunk, size
<1>11. PlainItems[r + 1] = Chunk("ENCRYPT", r + 1, <<>>, <<>>, SizeOf(r + 1))
  BY <1>6 DEF PlainItems
<1>12. next > 0 /\ (next = file.size \/ next = (r + 1) * MaxChunk)
  BY <1>1, <1>3, <1>4
<1>. QED
  BY <1>5, <1>7, <1>9, <1>10, <1>11, <1>12 DEF r

\* The steps of the read thread.  Its other end is the crypto thread.
LEMMA ReadKeeps ==
  ASSUME TypeInv, EncInv, Encrypting, ReadStep
  PROVE  EncInv'
<1>. USE DEF Threads, Queues
<1>1. /\ Started /\ Reader /\ Launched
      /\ pc \in [Threads \cup {"main"} -> Pcs] /\ hold \in [Threads -> Good \cup {NULL}]
      /\ queue \in [Queues -> Seq(Good)]
      /\ ReadOut = "crypto"
  BY DEF ReadStep, TypeInv, PcsTyped, HoldsTyped, QueuesTyped, Started, Launched, ReadOut
<1>2. /\ UNCHANGED <<cryptoVars, macVars, writeVars, status, file, running>>
      /\ OthersKeep("read")
      /\ queue'["mac"] = queue["mac"] /\ queue'["write"] = queue["write"]
      /\ pc["read"] # "exit"
  BY <1>1 DEF ReadStep, Reader, ReadOpen, ReadChunk, ReadQueue, ReadEnd, ReadDone, Goto, Go,
              Put, Keep, flagVars, OthersKeep
<1>3. UNCHANGED Fixed
  BY <1>2, FixedFacts
<1>4. error' = error \/ (running /\ target = NULL /\ pc["write"] \notin {"rename", "stop"})
  BY <1>1, <1>2, StillRunning
<1>5. Fate'
  <2>1. Fate
    BY DEF EncInv
  <2>2. pc["main"] # "over" /\ pc'["main"] # "over" /\ pc'["main"] # "start"
    BY <1>1, <1>2 DEF OthersKeep, Started
  <2>. QED
    BY <1>2, <1>3, <1>4, <2>1, <2>2 DEF Fate, OthersKeep, writeVars, Fixed
<1>. SUFFICES ASSUME Healthy'
              PROVE  (/\ PlainInOrder /\ SealedInOrder /\ OutInOrder
                      /\ ReaderOK /\ CipherOK /\ DigestOK /\ OutputOK)'
  <2>1. pc'["main"] # "start"
    BY <1>1, <1>2 DEF OthersKeep, Started
  <2>. QED
    BY <1>5, <2>1 DEF EncInv
<1>6. /\ Healthy /\ error' = error
      /\ PlainInOrder /\ SealedInOrder /\ OutInOrder /\ ReaderOK /\ CipherOK /\ DigestOK /\ OutputOK
  BY <1>1, <1>2 DEF EncInv, Healthy, OthersKeep
<1>7. SealedInOrder' /\ OutInOrder'
  <2>1. SealedInOrder'
    BY <1>2, <1>3, <1>6
    DEF SealedInOrder, Holds, CryptoGave, MacTook, HeldCount, OthersKeep, cryptoVars, macVars, Fixed
  <2>2. OutInOrder'
    BY <1>2, <1>3, <1>6
    DEF OutInOrder, Holds, MacGave, WriteTook, HeldCount, OthersKeep, macVars, writeVars, Fixed
  <2>. QED
    BY <2>1, <2>2
<1>8. CipherOK' /\ DigestOK' /\ OutputOK'
  BY <1>2, <1>3, <1>6
  DEF CipherOK, DigestOK, OutputOK, OthersKeep, cryptoVars, macVars, writeVars, Fixed
<1>9. KeepGoing
  BY <1>1, <1>2, <1>6, StillRunning DEF Healthy
<1>10. /\ CryptoTook' = CryptoTook /\ CryptoTook \in Int /\ Total' = Total /\ PlainItems' = PlainItems
       /\ Total \in Nat /\ DataChunks(bytesRead) \in 0 .. Total /\ file.size \in Nat
       /\ Len(queue["crypto"]) \in Nat
  BY <1>1, <1>2, <1>3, TotalFacts DEF CryptoTook, OthersKeep, cryptoVars, Fixed, TypeInv, CryptoTyped
<1>11. ReaderOK' /\ PlainInOrder'
  <2>1. CASE ReadOpen
    <3>1. /\ UNCHANGED <<queue, hold, bytesRead>> /\ pc'["read"] = "loop" /\ pc["read"] = "start"
          /\ origFileSize' = file.size
      BY <1>1, <1>6, <2>1, PipelineAssumption DEF ReadOpen, Go, Healthy, Sizes
    <3>. QED
      BY <1>2, <1>6, <1>10, <3>1 DEF ReaderOK, PlainInOrder, ReadGave, HeldCount, readVars
  <2>2. CASE ReadChunk
    <3>. DEFINE next == bytesRead + PlainChunk.size
    <3>1. /\ pc["read"] = "loop" /\ bytesRead < origFileSize /\ UNCHANGED <<queue, origFileSize>>
          /\ \/ /\ bytesRead' = next
                /\ hold'["read"] = PlainChunk.chunk
                /\ pc'["read"] = "queue"
             \/ pc'["read"] = "loop" /\ UNCHANGED <<bytesRead, hold>>
      BY <1>1, <2>2 DEF ReadChunk, Go, Keep
    <3>2. /\ PlainChunk.chunk = PlainItems[DataChunks(next)]
          /\ DataChunks(next) = DataChunks(bytesRead) + 1
          /\ next = file.size \/ next = DataChunks(next) * MaxChunk
          /\ next > 0 
      BY <1>6, <3>1, ReadNext
    <3>3. CASE bytesRead' = next /\ hold'["read"] = PlainChunk.chunk /\ pc'["read"] = "queue"
      <4>1. hold'["read"] # NULL
        BY <3>3, ReadTypes DEF TypeInv, HoldsTyped
      <4>. HIDE DEF next
      <4>. QED
        BY <1>2, <1>6, <1>10, <3>1, <3>2, <3>3, <4>1 DEF ReaderOK, PlainInOrder, ReadGave, HeldCount, readVars
    <3>4. CASE pc'["read"] = "loop" /\ UNCHANGED <<bytesRead, hold>>
      BY <1>2, <1>6, <1>10, <3>1, <3>4 DEF ReaderOK, PlainInOrder, ReadGave, HeldCount, readVars
    <3>. QED
      BY <3>1, <3>3, <3>4
  <2>3. CASE ReadQueue
    <3>1. /\ pc["read"] = "queue" /\ pc'["read"] = "loop"
          /\ queue'["crypto"] = Append(queue["crypto"], hold["read"])
          /\ hold'["read"] = NULL /\ UNCHANGED readVars
      BY <1>1, <2>3 DEF ReadQueue, Goto, Put, Keep
    <3>2. hold["read"] \in Good /\ hold["read"] # NULL
      BY <1>1, <3>1 DEF TypeInv, HoldsTyped
    <3>3. Len(queue'["crypto"]) = Len(queue["crypto"]) + 1
      BY <1>1, <3>1, <3>2
    <3>4. CryptoTook + Len(queue["crypto"]) = DataChunks(bytesRead)
      BY <1>6, <1>10, <3>1, <3>2 DEF PlainInOrder, ReadGave, HeldCount
    <3>5. Holds(queue'["crypto"], PlainItems, CryptoTook)
      <4>1. hold["read"] = PlainItems[CryptoTook + Len(queue["crypto"])]
        BY <1>6, <3>1, <3>4 DEF ReaderOK
      <4>2. queue["crypto"] \in Seq(Good) /\ Holds(queue["crypto"], PlainItems, CryptoTook)
        BY <1>1, <1>6 DEF PlainInOrder
      <4>. QED
        BY <1>10, <3>1, <3>2, <4>1, <4>2, HoldsPut
    <3>. QED
      BY <1>2, <1>6, <1>10, <3>1, <3>3, <3>4, <3>5 DEF ReaderOK, PlainInOrder, ReadGave, HeldCount, readVars
  <2>4. CASE ReadEnd
    <3>1. /\ pc["read"] = "loop" /\ pc'["read"] = "flush" /\ UNCHANGED <<queue, hold, readVars>>
          /\ ~(bytesRead < origFileSize)
      BY <1>1, <1>9, <2>4 DEF ReadEnd, Goto
    <3>2. bytesRead = file.size
      BY <1>6, <1>10, <3>1, TotalFacts DEF ReaderOK
    <3>. QED
      BY <1>2, <1>6, <1>10, <3>1, <3>2 DEF ReaderOK, PlainInOrder, ReadGave, HeldCount, readVars
  <2>5. CASE ReadDone
    <3>1. /\ pc["read"] = "flush" /\ pc'["read"] = "exit" /\ UNCHANGED <<hold, readVars>>
          /\ queue'["crypto"] = Append(queue["crypto"], DONE)
      BY <1>1, <2>5 DEF ReadDone, Goto, Put
    <3>2. Len(queue'["crypto"]) = Len(queue["crypto"]) + 1
      BY <1>1, <3>1, DoneType
    <3>3. CryptoTook + Len(queue["crypto"]) = Total + 1
      <4>1. bytesRead = file.size /\ hold["read"] = NULL
        BY <1>6, <3>1 DEF ReaderOK
      <4>2. DataChunks(bytesRead) = Total
        BY <4>1, TotalFacts
      <4>. QED
        BY <1>6, <1>10, <3>1, <4>1, <4>2 DEF PlainInOrder, ReadGave, HeldCount
    <3>4. Holds(queue'["crypto"], PlainItems, CryptoTook)
      <4>1. DONE = PlainItems[CryptoTook + Len(queue["crypto"])]
        BY <1>10, <3>3, LastItems
      <4>2. queue["crypto"] \in Seq(Good) /\ Holds(queue["crypto"], PlainItems, CryptoTook)
        BY <1>1, <1>6 DEF PlainInOrder
      <4>. QED
        BY <1>10, <3>1, <4>1, <4>2, HoldsPut, DoneType
    <3>5. ReaderOK'
      BY <1>2, <1>6, <3>1 DEF ReaderOK, readVars
    <3>6. ReadGave' = Total + 2
      BY <1>10, <3>1 DEF ReadGave, readVars
    <3>. QED
      BY <1>10, <3>2, <3>3, <3>4, <3>5, <3>6 DEF PlainInOrder
  <2>. QED
    BY <1>1, <2>1, <2>2, <2>3, <2>4, <2>5 DEF Reader
<1>. QED
  BY <1>7, <1>8, <1>11

\* The steps of the crypto thread.
LEMMA CryptoKeeps ==
  ASSUME TypeInv, EncInv, Encrypting, CryptoStep
  PROVE  EncInv'
<1>. USE DEF Threads, Queues
<1>1. /\ Started /\ Crypto /\ Launched
      /\ pc \in [Threads \cup {"main"} -> Pcs] /\ hold \in [Threads -> Good \cup {NULL}]
      /\ queue \in [Queues -> Seq(Good)]
      /\ CryptoOut = "mac"
  BY DEF CryptoStep, TypeInv, PcsTyped, HoldsTyped, QueuesTyped, Started, Launched, CryptoOut
<1>2. /\ UNCHANGED <<readVars, macVars, writeVars, status, file, running>>
      /\ OthersKeep("crypto")
      /\ queue'["write"] = queue["write"]
      /\ pc["crypto"] # "exit"
  BY <1>1 DEF CryptoStep, Crypto, CryptoStart, CryptoTurn, CryptoNothing, CryptoSeesDone,
              EncryptHeader, EncryptChunk, StripHeader, DecryptChunk, CryptoPut, CryptoDone,
              Goto, Go, Put, Keep, TakeIt, deque, flagVars, OthersKeep
<1>3. UNCHANGED Fixed
  BY <1>2, FixedFacts
<1>4. error' = error \/ (running /\ target = NULL /\ pc["write"] \notin {"rename", "stop"})
  BY <1>1, <1>2, StillRunning
<1>5. Fate'
  <2>1. Fate
    BY DEF EncInv
  <2>2. pc["main"] # "over" /\ pc'["main"] # "over" /\ pc'["main"] # "start"
    BY <1>1, <1>2 DEF OthersKeep, Started
  <2>. QED
    BY <1>2, <1>3, <1>4, <2>1, <2>2 DEF Fate, OthersKeep, writeVars, Fixed
<1>. SUFFICES ASSUME Healthy'
              PROVE  (/\ PlainInOrder /\ SealedInOrder /\ OutInOrder
                      /\ ReaderOK /\ CipherOK /\ DigestOK /\ OutputOK)'
  <2>1. pc'["main"] # "start"
    BY <1>1, <1>2 DEF OthersKeep, Started
  <2>. QED
    BY <1>5, <2>1 DEF EncInv
<1>6. /\ Healthy /\ error' = error
      /\ PlainInOrder /\ SealedInOrder /\ OutInOrder /\ ReaderOK /\ CipherOK /\ DigestOK /\ OutputOK
  BY <1>1, <1>2 DEF EncInv, Healthy, OthersKeep
<1>7. OutInOrder'
  BY <1>2, <1>3, <1>6
  DEF OutInOrder, Holds, MacGave, WriteTook, HeldCount, OthersKeep, macVars, writeVars, Fixed
<1>8. ReaderOK' /\ DigestOK' /\ OutputOK'
  BY <1>2, <1>3, <1>6
  DEF ReaderOK, DigestOK, OutputOK, OthersKeep, readVars, macVars, writeVars, Fixed
<1>9. KeepGoing
  BY <1>1, <1>2, <1>6, StillRunning DEF Healthy
<1>10. /\ ReadGave' = ReadGave /\ ReadGave \in Int
       /\ MacTook' = MacTook /\ MacTook \in Int
       /\ ReadGave > Total + 1 => pc["read"] = "exit"
       /\ Total' = Total /\ Total \in Nat
       /\ PlainItems' = PlainItems /\ SealedItems' = SealedItems /\ CipherItems' = CipherItems
       /\ Len(queue["crypto"]) \in Nat /\ Len(queue["mac"]) \in Nat /\ chain \in Int
  <2>1. Total' = Total /\ Total \in Nat /\ DataChunks(bytesRead) \in 0 .. Total
        /\ PlainItems' = PlainItems /\ SealedItems' = SealedItems /\ CipherItems' = CipherItems
        /\ Len(queue["crypto"]) \in Nat /\ Len(queue["mac"]) \in Nat
    BY <1>1, <1>3, TotalFacts DEF Fixed
  <2>2. ReadGave' = ReadGave /\ ReadGave \in Int /\ (ReadGave > Total + 1 => pc["read"] = "exit")
    BY <1>2, <2>1 DEF ReadGave, HeldCount, OthersKeep, readVars
  <2>3. MacTook' = MacTook /\ MacTook \in Int /\ chain \in Int
    BY <1>2, <1>6 DEF MacTook, OthersKeep, macVars, TypeInv, MacTyped, CryptoTyped
  <2>. QED
    BY <2>1, <2>2, <2>3
<1>11. ASSUME Fresh, TakeIt, pc["crypto"] = "take"
       PROVE  /\ Taken = PlainItems[chain + 1] /\ hold["crypto"] = NULL
              /\ queue'["mac"] = queue["mac"]
              /\ Len(queue["crypto"]) >= 1
              /\ Len(queue'["crypto"]) = Len(queue["crypto"]) - 1
              /\ Holds(queue'["crypto"], PlainItems, CryptoTook + 1)
              /\ CryptoTook = chain + 1
  <2>1. /\ hold["crypto"] = NULL /\ Taken = front("crypto") /\ front("crypto") # NULL
        /\ queue' = [queue EXCEPT !["crypto"] = Tail(@)]
    BY <1>11 DEF Fresh, TakeIt, Taken, deque
  <2>2. queue["crypto"] # <<>> /\ Taken = Head(queue["crypto"]) /\ queue["crypto"] \in Seq(Good)
    BY <1>1, <2>1, FrontType
  <2>3. CryptoTook = chain + 1 /\ CryptoTook \in Int
    BY <1>10, <1>11 DEF CryptoTook
  <2>4. /\ Head(queue["crypto"]) = PlainItems[CryptoTook]
        /\ Holds(Tail(queue["crypto"]), PlainItems, CryptoTook + 1)
    BY <1>6, <2>2, <2>3, HoldsTake DEF PlainInOrder
  <2>5. /\ queue'["crypto"] = Tail(queue["crypto"]) /\ queue'["mac"] = queue["mac"]
        /\ Len(queue["crypto"]) >= 1 /\ Len(Tail(queue["crypto"])) = Len(queue["crypto"]) - 1
    BY <1>1, <2>1, <2>2
  <2>. QED
    BY <2>1, <2>2, <2>3, <2>4, <2>5
<1>12. ASSUME NEW c \in Good, queue'["mac"] = Append(queue["mac"], c),
              c = SealedItems[MacTook + Len(queue["mac"])]
       PROVE  /\ Len(queue'["mac"]) = Len(queue["mac"]) + 1
              /\ Holds(queue'["mac"], SealedItems, MacTook)
  <2>1. queue["mac"] \in Seq(Good) /\ Holds(queue["mac"], SealedItems, MacTook)
    BY <1>1, <1>6 DEF SealedInOrder
  <2>2. Len(Append(queue["mac"], c)) = Len(queue["mac"]) + 1
    BY <2>1
  <2>3. MacTook \in Int
    BY <1>10
  <2>4. Holds(Append(queue["mac"], c), SealedItems, MacTook)
    BY <1>12, <2>1, <2>3, HoldsPut
  <2>. QED
    BY <1>12, <2>2, <2>4
<1>13. CipherOK' /\ PlainInOrder' /\ SealedInOrder'
  <2>. USE DEF CryptoTook, CryptoGave, HeldCount
  <2>1. CASE CryptoStart
    <3>1. UNCHANGED <<queue, hold, cryptoVars>> /\ pc["crypto"] = "start" /\ pc'["crypto"] = "loop"
      BY <1>1, <1>6, <2>1, PipelineAssumption DEF CryptoStart, Go, Healthy
    <3>. QED
      BY <1>2, <1>6, <1>10, <3>1 DEF CipherOK, PlainInOrder, SealedInOrder, OthersKeep, cryptoVars
  <2>2. CASE CryptoTurn
    <3>1. UNCHANGED <<queue, hold, cryptoVars>> /\ pc["crypto"] = "loop" /\ pc'["crypto"] = "take"
      BY <1>1, <1>9, <2>2 DEF CryptoTurn, Goto
    <3>. QED
      BY <1>2, <1>6, <1>10, <3>1 DEF CipherOK, PlainInOrder, SealedInOrder, OthersKeep, cryptoVars
  <2>3. CASE CryptoNothing
    <3>1. UNCHANGED <<queue, hold, cryptoVars>> /\ pc["crypto"] = "take" /\ pc'["crypto"] = "loop"
      BY <1>1, <2>3 DEF CryptoNothing, Goto
    <3>. QED
      BY <1>2, <1>6, <1>10, <3>1 DEF CipherOK, PlainInOrder, SealedInOrder, OthersKeep, cryptoVars
  <2>4. CASE CryptoSeesDone
    <3>1. /\ UNCHANGED <<hold, cryptoVars>> /\ pc["crypto"] = "take" /\ pc'["crypto"] = "flush"
          /\ Taken # NULL /\ Taken.action = "DONE" /\ TakeIt
      BY <1>1, <2>4 DEF CryptoSeesDone, Goto
    <3>2. Fresh
      <4>1. CASE hold["crypto"] # NULL
        <5>1. Taken = CipherItems[chain] /\ chain \in 0 .. Total
          BY <1>6, <1>10, <4>1 DEF CipherOK, Taken
        <5>. QED
          BY <3>1, <5>1, CipherItem
      <4>. QED
        BY <3>1, <4>1 DEF Fresh
    <3>3. chain = Total
      <4>1. chain \in -1 .. Total /\ Taken = PlainItems[chain + 1]
        BY <1>6, <1>11, <3>1, <3>2 DEF CipherOK
      <4>2. ~(chain + 1 \in 0 .. Total)
        BY <3>1, <4>1, CipherItem
      <4>. QED
        BY <1>10, <4>1, <4>2
    <3>4. /\ hold["crypto"] = NULL /\ queue'["mac"] = queue["mac"]
          /\ Len(queue["crypto"]) >= 1
          /\ Len(queue'["crypto"]) = Len(queue["crypto"]) - 1
          /\ Holds(queue'["crypto"], PlainItems, Total + 2)
          /\ CryptoTook = Total + 1 /\ CryptoTook' = Total + 2
      <4>1. CryptoTook = Total + 1 /\ CryptoTook + 1 = Total + 2
        BY <1>10, <1>11, <3>1, <3>2, <3>3
      <4>2. CryptoTook' = Total + 2
        BY <1>10, <3>1
      <4>. QED
        BY <1>11, <3>1, <3>2, <4>1, <4>2
    <3>5. pc["read"] = "exit"
      BY <1>6, <1>10, <3>4 DEF PlainInOrder
    <3>6. CipherOK'
      BY <1>2, <1>6, <1>10, <3>1, <3>3, <3>4, <3>5 DEF CipherOK, OthersKeep, cryptoVars
    <3>7. PlainInOrder'
      BY <1>6, <1>10, <3>4 DEF PlainInOrder
    <3>8. SealedInOrder'
      BY <1>6, <1>10, <3>1, <3>4 DEF SealedInOrder, cryptoVars
    <3>. QED
      BY <3>6, <3>7, <3>8
  <2>5. CASE EncryptHeader \/ (EncryptChunk /\ Fresh)
    <3>1. /\ pc["crypto"] = "take" /\ pc'["crypto"] = "put" /\ Fresh /\ TakeIt
          /\ Taken.action # "DONE"
          /\ header' = FALSE
          /\ hold' = [hold EXCEPT !["crypto"] = Encipher(Taken, chain)]
          /\ chain' = ChainOf(Encipher(Taken, chain))
      <4>1. header => hold["crypto"] = NULL /\ chain = IV
        BY <1>6 DEF TypeInv, OnceOnly, CipherOK, IV
      <4>. QED
        BY <1>1, <2>5, <4>1 DEF EncryptHeader, EncryptChunk, Goto, Keep, Fresh
    <3>2. /\ Taken = PlainItems[chain + 1] /\ hold["crypto"] = NULL
          /\ queue'["mac"] = queue["mac"]
          /\ Len(queue'["crypto"]) = Len(queue["crypto"]) - 1
          /\ Holds(queue'["crypto"], PlainItems, CryptoTook + 1)
          /\ CryptoTook = chain + 1
      BY <1>11, <3>1
    <3>. DEFINE k == chain + 1
    <3>3. k \in 0 .. Total /\ k - 1 = chain
      <4>1. chain \in -1 .. Total
        BY <1>6 DEF CipherOK
      <4>2. k = Total + 1 => PlainItems[k] = DONE
        BY <1>10, LastItems
      <4>. QED
        BY <1>10, <3>1, <3>2, <4>1, <4>2, DoneType
    <3>4. Encipher(Taken, chain) = CipherItems[k] /\ ChainOf(CipherItems[k]) = k
      BY <3>2, <3>3, CipherItem
    <3>5. hold'["crypto"] = CipherItems[k] /\ chain' = k
      BY <1>1, <3>1, <3>4
    <3>6. hold'["crypto"] # NULL
      BY <3>1, CryptoTypes DEF TypeInv, HoldsTyped
    <3>. HIDE DEF k
    <3>7. chain' = chain + 1
      BY <3>5 DEF k
    <3>8. CipherOK'
      BY <1>2, <1>10, <3>1, <3>3, <3>5 DEF CipherOK
    <3>9. PlainInOrder'
      <4>1. CryptoTook' = CryptoTook + 1
        BY <1>10, <3>1, <3>7
      <4>. QED
        BY <1>6, <1>10, <3>2, <4>1 DEF PlainInOrder
    <3>10. SealedInOrder'
      <4>1. CryptoGave' = CryptoGave
        BY <1>10, <3>1, <3>2, <3>6, <3>7
      <4>. QED
        BY <1>6, <1>10, <3>2, <4>1 DEF SealedInOrder
    <3>. QED
      BY <3>8, <3>9, <3>10
  <2>6. CASE EncryptChunk /\ ~Fresh
    <3>1. /\ pc["crypto"] = "take" /\ pc'["crypto"] = "put"
          /\ hold["crypto"] # NULL /\ Taken = hold["crypto"] /\ UNCHANGED queue
      BY <1>1, <2>6 DEF EncryptChunk, Goto, Fresh, Taken, TakeIt
    <3>2. worked /\ chain \in 0 .. Total /\ Taken = CipherItems[chain]
      BY <1>6, <1>10, <3>1 DEF TypeInv, OnceOnly, CipherOK
    <3>3. ChainOf(Taken) = chain
      BY <3>2, CipherItem
    <3>4. /\ hold'["crypto"] = hold["crypto"] /\ chain' = chain /\ header' = header
      BY <1>1, <2>6, <3>1, <3>2, <3>3 DEF EncryptChunk, Keep
    <3>. QED
      BY <1>2, <1>6, <1>10, <3>1, <3>4 DEF CipherOK, PlainInOrder, SealedInOrder, OthersKeep
  <2>7. CASE CryptoPut
    <3>1. /\ pc["crypto"] = "put" /\ pc'["crypto"] = "loop" /\ UNCHANGED cryptoVars
          /\ hold["crypto"] # NULL
      BY <1>1, <2>7 DEF CryptoPut, Goto, TypeInv, HoldsTyped
    <3>2. CASE UNCHANGED <<queue, hold>>
      BY <1>2, <1>6, <1>10, <3>1, <3>2 DEF CipherOK, PlainInOrder, SealedInOrder, OthersKeep, cryptoVars
    <3>3. CASE ~UNCHANGED <<queue, hold>>
      <4>1. /\ queue' = [queue EXCEPT !["mac"] = Append(@, [hold["crypto"] EXCEPT !.action = "GEN_MAC"])]
            /\ hold'["crypto"] = NULL
        BY <1>1, <2>7, <3>3 DEF CryptoPut, Put, Keep
      <4>2. chain \in 0 .. Total /\ hold["crypto"] = CipherItems[chain]
        BY <1>6, <1>10, <3>1 DEF CipherOK
      <4>3. [hold["crypto"] EXCEPT !.action = "GEN_MAC"] = SealedItems[chain]
        BY <4>2, SealedItem
      <4>4. SealedItems[chain] \in Good
        <5>1. hold["crypto"] \in NoMac
          BY <3>1 DEF TypeInv, OnceOnly
        <5>2. "GEN_MAC" \in Actions \ {"data", "MAC"}
          BY DEF Actions
        <5>. QED
          BY <4>3, <5>1, <5>2, ActionType, GoodFacts
      <4>5. queue'["mac"] = Append(queue["mac"], SealedItems[chain]) /\ queue'["crypto"] = queue["crypto"]
        BY <1>1, <4>1, <4>3
      <4>6. MacTook + Len(queue["mac"]) = chain /\ CryptoGave = chain
        BY <1>6, <1>10, <3>1 DEF SealedInOrder
      <4>7. /\ Len(queue'["mac"]) = Len(queue["mac"]) + 1
            /\ Holds(queue'["mac"], SealedItems, MacTook)
        BY <1>12, <4>4, <4>5, <4>6
      <4>8. CryptoGave' = chain + 1
        BY <1>10, <3>1, <4>1 DEF cryptoVars
      <4>9. SealedInOrder'
        <5>1. Len(queue'["mac"]) = chain + 1 - MacTook
          BY <1>10, <4>6, <4>7
        <5>2. Len(queue'["mac"]) = CryptoGave' - MacTook'
          BY <1>10, <4>8, <5>1
        <5>. QED
          BY <1>10, <4>7, <5>2 DEF SealedInOrder
      <4>10. CipherOK' /\ PlainInOrder'
        BY <1>2, <1>6, <1>10, <3>1, <4>1, <4>5 DEF CipherOK, PlainInOrder, OthersKeep, cryptoVars
      <4>. QED
        BY <4>9, <4>10
    <3>. QED
      BY <3>2, <3>3
  <2>8. CASE CryptoDone
    <3>1. /\ pc["crypto"] = "flush" /\ pc'["crypto"] = "exit" /\ UNCHANGED <<hold, cryptoVars>>
          /\ queue'["mac"] = Append(queue["mac"], DONE) /\ queue'["crypto"] = queue["crypto"]
      BY <1>1, <2>8 DEF CryptoDone, Goto, Put
    <3>2. chain = Total /\ hold["crypto"] = NULL
      BY <1>6, <3>1 DEF CipherOK
    <3>3. MacTook + Len(queue["mac"]) = Total + 1
      BY <1>6, <1>10, <3>1, <3>2 DEF SealedInOrder
    <3>4. DONE = SealedItems[MacTook + Len(queue["mac"])]
      BY <1>10, <3>3, LastItems
    <3>5. /\ Len(queue'["mac"]) = Len(queue["mac"]) + 1
          /\ Holds(queue'["mac"], SealedItems, MacTook)
      BY <1>12, <3>1, <3>4, DoneType
    <3>6. CipherOK' /\ PlainInOrder'
      BY <1>2, <1>6, <1>10, <3>1 DEF CipherOK, PlainInOrder, OthersKeep, cryptoVars
    <3>7. CryptoGave' = Total + 2 /\ Total + 2 - MacTook = Len(queue["mac"]) + 1
      <4>1. CryptoGave' = Total + 2
        BY <1>10, <3>1 DEF CryptoGave
      <4>2. Total + 2 - MacTook = Len(queue["mac"]) + 1
        BY <1>10, <3>3
      <4>. QED
        BY <4>1, <4>2
    <3>8. SealedInOrder'
      BY <1>10, <3>5, <3>7 DEF SealedInOrder
    <3>. QED
      BY <3>6, <3>8
  <2>9. ~StripHeader /\ ~DecryptChunk
    BY DEF StripHeader, DecryptChunk
  <2>. QED
    BY <1>1, <2>1, <2>2, <2>3, <2>4, <2>5, <2>6, <2>7, <2>8, <2>9 DEF Crypto
<1>. QED
  BY <1>7, <1>8, <1>13

\* The steps of the MAC thread.  It never reports an error.
LEMMA MacKeeps ==
  ASSUME TypeInv, EncInv, Encrypting, MacStep
  PROVE  EncInv'
<1>. USE DEF Threads, Queues
<1>1. /\ Started /\ Launched
      /\ pc \in [Threads \cup {"main"} -> Pcs] /\ hold \in [Threads -> Good \cup {NULL}]
      /\ queue \in [Queues -> Seq(Good)]
      /\ digest \in Seq(Pieces)
      /\ MacOut = "write"
      /\ pc["mac"] \in {"start", "cond", "get", "put", "append", "flush", "exit"}
  BY DEF MacStep, TypeInv, PcsTyped, HoldsTyped, QueuesTyped, MacTyped, MacPcs, Started, Launched, MacOut
<1>2. \/ MacStart \/ GenerateCond \/ GenerateGet \/ GenerateIdle \/ GeneratePut
      \/ GenerateAppend \/ MacDone
  BY <1>1 DEF MacStep, Mac, AuthTurn, AuthTake, AuthHeld, AuthHeaderBad, AuthHash, AuthPass,
              AuthFinal, AuthStored, AuthFetch, AuthVerdict, Goto
<1>3. /\ UNCHANGED <<readVars, cryptoVars, writeVars, status, file, flagVars>>
      /\ OthersKeep("mac")
      /\ queue'["crypto"] = queue["crypto"]
      /\ pc["mac"] # "exit"
  BY <1>1, <1>2 DEF MacStep, MacStart, GenerateCond, GenerateGet, GenerateIdle, GeneratePut,
              GenerateAppend, MacDone, Goto, Go, Put, Keep, deque, flagVars, OthersKeep
<1>4. UNCHANGED Fixed
  BY <1>3, FixedFacts
<1>5. Fate'
  <2>1. Fate
    BY DEF EncInv
  <2>2. pc["main"] # "over" /\ pc'["main"] # "over"
    BY <1>1, <1>3 DEF OthersKeep, Started
  <2>. QED
    BY <1>3, <1>4, <2>1, <2>2 DEF Fate, OthersKeep, writeVars, flagVars, Fixed
<1>. SUFFICES ASSUME Healthy'
              PROVE  (/\ PlainInOrder /\ SealedInOrder /\ OutInOrder
                      /\ ReaderOK /\ CipherOK /\ DigestOK /\ OutputOK)'
  <2>1. pc'["main"] # "start"
    BY <1>1, <1>3 DEF OthersKeep, Started
  <2>. QED
    BY <1>5, <2>1 DEF EncInv
<1>6. /\ Healthy
      /\ PlainInOrder /\ SealedInOrder /\ OutInOrder /\ ReaderOK /\ CipherOK /\ DigestOK /\ OutputOK
  BY <1>1, <1>3 DEF EncInv, Healthy, flagVars
<1>7. PlainInOrder'
  BY <1>3, <1>4, <1>6
  DEF PlainInOrder, Holds, ReadGave, CryptoTook, HeldCount, OthersKeep, readVars, cryptoVars, Fixed
<1>8. ReaderOK' /\ CipherOK'
  BY <1>3, <1>4, <1>6 DEF ReaderOK, CipherOK, OthersKeep, readVars, cryptoVars, Fixed
<1>9. OutputOK'
  BY <1>3, <1>4, <1>6 DEF OutputOK, OthersKeep, writeVars, Fixed
<1>10. /\ CryptoGave' = CryptoGave /\ CryptoGave \in Int
       /\ CryptoGave <= Total + 2
       /\ CryptoGave > Total + 1 => pc["crypto"] = "exit"
       /\ WriteTook' = WriteTook /\ WriteTook \in Int
       /\ Total' = Total /\ Total \in Nat
       /\ SealedItems' = SealedItems /\ OutItems' = OutItems /\ Hashed' = Hashed
       /\ pc'["crypto"] = pc["crypto"]
       /\ Len(queue["mac"]) \in Nat /\ Len(queue["write"]) \in Nat /\ Len(digest) \in Nat
       /\ DONE # NULL /\ DONE \in Good /\ NULL \notin Good
  <2>1. Total' = Total /\ Total \in Nat
        /\ SealedItems' = SealedItems /\ OutItems' = OutItems /\ Hashed' = Hashed
        /\ Len(queue["mac"]) \in Nat /\ Len(queue["write"]) \in Nat /\ Len(digest) \in Nat
    BY <1>1, <1>4, TotalFacts DEF Fixed
  <2>2. CryptoGave' = CryptoGave /\ CryptoGave \in Int /\ CryptoGave <= Total + 2
        /\ (CryptoGave > Total + 1 => pc["crypto"] = "exit")
    BY <1>3, <1>6, <2>1 DEF CryptoGave, CipherOK, HeldCount, OthersKeep, cryptoVars
  <2>3. WriteTook' = WriteTook
    BY <1>3, <2>1 DEF WriteTook, HeldCount, OthersKeep, writeVars
  <2>4. WriteTook \in Int
    BY <2>1 DEF WriteTook, HeldCount, TypeInv, WriteTyped
  <2>5. DONE # NULL /\ DONE \in Good /\ NULL \notin Good
    BY DoneType, GoodFacts
  <2>. QED
    BY <1>3, <2>1, <2>2, <2>3, <2>4, <2>5 DEF OthersKeep
<1>11. ASSUME front("mac") # NULL, hold["mac"] # DONE
       PROVE  /\ front("mac") = SealedItems[Len(digest)]
              /\ MacTook = Len(digest)
              /\ queue["mac"] # <<>> /\ front("mac") = Head(queue["mac"])
              /\ Len(queue["mac"]) >= 1
              /\ front("mac").action = "GEN_MAC" =>
                   Len(digest) \in 0 .. Total /\ front("mac").action # "DONE"
              /\ front("mac").action # "GEN_MAC" =>
                   Len(digest) = Total + 1 /\ front("mac") = DONE /\ pc["crypto"] = "exit"
  <2>1. MacTook = Len(digest) /\ Len(digest) <= Total + 1
    BY <1>6, <1>11 DEF MacTook, DigestOK
  <2>2. queue["mac"] # <<>> /\ front("mac") = Head(queue["mac"]) /\ queue["mac"] \in Seq(Good)
    BY <1>1, <1>11, FrontType
  <2>3. front("mac") = SealedItems[Len(digest)]
    BY <1>6, <1>10, <2>1, <2>2, HoldsTake DEF SealedInOrder
  <2>4. Len(queue["mac"]) >= 1
    BY <2>2
  <2>5. Len(digest) \in 0 .. Total => front("mac").action = "GEN_MAC"
    BY <2>3, SealedItem
  <2>6. Len(digest) = Total + 1 => /\ front("mac") = DONE /\ front("mac").action # "GEN_MAC"
                                   /\ pc["crypto"] = "exit"
    <3>. SUFFICES ASSUME Len(digest) = Total + 1 
                  PROVE front("mac") = DONE /\ front("mac").action # "GEN_MAC" /\ pc["crypto"] = "exit"
      OBVIOUS
    <3>1. front("mac") = DONE
      BY <1>10, <2>3, LastItems
    <3>2. CryptoGave > Total + 1
      BY <1>6, <1>10, <2>1, <2>4 DEF SealedInOrder
    <3>. QED
      BY <1>10, <3>1, <3>2, DoneType
  <2>. QED
    BY <1>10, <2>1, <2>2, <2>3, <2>4, <2>5, <2>6
<1>12. ASSUME NEW c \in Good, queue'["write"] = Append(queue["write"], c),
              c = OutItems[WriteTook + Len(queue["write"])]
       PROVE  /\ Len(queue'["write"]) = Len(queue["write"]) + 1
              /\ Holds(queue'["write"], OutItems, WriteTook)
  <2>1. queue["write"] \in Seq(Good) /\ Holds(queue["write"], OutItems, WriteTook)
    BY <1>1, <1>6 DEF OutInOrder
  <2>2. Len(Append(queue["write"], c)) = Len(queue["write"]) + 1
    BY <2>1
  <2>3. WriteTook \in Int
    BY <1>10
  <2>4. Holds(Append(queue["write"], c), OutItems, WriteTook)
    BY <1>12, <2>1, <2>3, HoldsPut
  <2>. QED
    BY <1>12, <2>2, <2>4
<1>13. DigestOK' /\ SealedInOrder' /\ OutInOrder'
  <2>. USE DEF MacTook, MacGave
  <2>1. CASE MacStart \/ GenerateIdle
    <3>1. /\ UNCHANGED <<queue, hold, macVars>>
          /\ pc["mac"] \in {"start", "get"} /\ pc'["mac"] = "cond"
      BY <1>1, <2>1 DEF MacStart, GenerateIdle, Goto
    <3>. QED
      BY <1>3, <1>6, <1>10, <3>1 DEF DigestOK, SealedInOrder, OutInOrder, macVars
  <2>2. CASE GenerateCond
    <3>1. /\ UNCHANGED <<queue, hold, macVars>> /\ pc["mac"] = "cond"
          /\ pc'["mac"] = IF SeesDone THEN "append" ELSE "get"
      BY <1>1, <2>2 DEF GenerateCond, Goto
    <3>2. SeesDone => Len(digest) = Total + 1 /\ pc["crypto"] = "exit"
      <4>1. ASSUME SeesDone, hold["mac"] = DONE PROVE FALSE
        <5>1. MacTook = Total + 2
          BY <1>6, <1>10, <4>1 DEF DigestOK
        <5>2. Len(queue["mac"]) <= 0
          BY <1>6, <1>10, <5>1 DEF SealedInOrder
        <5>3. queue["mac"] # <<>> /\ queue["mac"] \in Seq(Good)
          BY <1>1, <4>1, FrontType DEF SeesDone
        <5>. QED
          BY <5>2, <5>3
      <4>. QED
        BY <1>11, <4>1 DEF SeesDone
    <3>. QED
      BY <1>3, <1>6, <1>10, <3>1, <3>2 DEF DigestOK, SealedInOrder, OutInOrder, macVars
  <2>3. CASE GenerateGet
    <3>1. /\ pc["mac"] = "get" /\ hold["mac"] = NULL /\ front("mac") # NULL
          /\ queue' = [queue EXCEPT !["mac"] = Tail(@)]
      BY <2>3 DEF GenerateGet, Held, deque
    <3>. DEFINE k == Len(digest)
    <3>2. /\ front("mac") = SealedItems[k] /\ MacTook = k
          /\ queue["mac"] # <<>> /\ front("mac") = Head(queue["mac"]) /\ Len(queue["mac"]) >= 1
      BY <1>10, <1>11, <3>1
    <3>3. /\ queue'["mac"] = Tail(queue["mac"]) /\ queue'["write"] = queue["write"]
          /\ Len(queue'["mac"]) = Len(queue["mac"]) - 1
          /\ Holds(queue'["mac"], SealedItems, k + 1)
      <4>1. queue["mac"] \in Seq(Good) /\ Holds(queue["mac"], SealedItems, k) /\ k \in Int
        BY <1>1, <1>6, <1>10, <3>2 DEF SealedInOrder
      <4>2. Holds(Tail(queue["mac"]), SealedItems, k + 1)
        BY <3>2, <4>1, HoldsTake
      <4>3. /\ queue'["mac"] = Tail(queue["mac"]) /\ queue'["write"] = queue["write"]
            /\ Len(Tail(queue["mac"])) = Len(queue["mac"]) - 1
        BY <1>1, <3>1, <3>2
      <4>. QED
        BY <4>2, <4>3
    <3>4. CASE front("mac").action = "GEN_MAC"
      <4>1. /\ digest' = Append(digest, Data(front("mac")))
            /\ hold' = [hold EXCEPT !["mac"] = [front("mac") EXCEPT !.action = "DECRYPT"]]
            /\ pc'["mac"] = "put"
        BY <1>1, <2>3, <3>4 DEF GenerateGet, Keep, Go
      <4>2. k \in 0 .. Total
        BY <1>10, <1>11, <3>1, <3>4
      <4>3. /\ Data(front("mac")) = Hashed[k + 1]
            /\ hold'["mac"] = OutItems[k] /\ OutItems[k].action # "DONE"
        BY <1>1, <3>2, <4>1, <4>2, SealedItem
      <4>4. hold'["mac"] # DONE
        BY <4>3, DoneType
      <4>5. /\ Len(digest') = k + 1
            /\ \A i \in 1 .. k : digest'[i] = digest[i]
            /\ digest'[k + 1] = Hashed[k + 1]
        <5>1. digest \in Seq(Pieces) /\ digest' = Append(digest, Hashed[k + 1])
          BY <1>1, <4>1, <4>3
        <5>. QED
          BY <5>1
      <4>. HIDE DEF k
      <4>6. DigestOK'
        <5>1. \A i \in 1 .. k : digest[i] = Hashed[i]
          BY <1>6 DEF DigestOK, k
        <5>2. \A i \in 1 .. k + 1 : digest'[i] = Hashed[i]
          BY <4>2, <4>5, <5>1
        <5>3. k + 1 - 1 = k
          BY <4>2
        <5>. QED
          BY <1>10, <4>1, <4>2, <4>3, <4>4, <4>5, <5>2, <5>3 DEF DigestOK
      <4>7. SealedInOrder'
        <5>1. MacTook' = k + 1
          BY <4>4, <4>5
        <5>2. CryptoGave' = CryptoGave /\ Len(queue["mac"]) = CryptoGave - k
          BY <1>6, <1>10, <3>2 DEF SealedInOrder
        <5>3. Len(queue'["mac"]) = CryptoGave - (k + 1)
          BY <1>10, <3>3, <4>2, <5>2
        <5>4. Len(queue'["mac"]) = CryptoGave' - MacTook'
          BY <5>1, <5>2, <5>3
        <5>. QED
          BY <1>10, <3>3, <5>1, <5>4 DEF SealedInOrder
      <4>8. OutInOrder'
        <5>1. MacGave = k
          BY <3>1 DEF k
        <5>2. MacGave' = k
          BY <4>1, <4>2, <4>5
        <5>. QED
          BY <1>6, <1>10, <3>3, <5>1, <5>2 DEF OutInOrder
      <4>. QED
        BY <4>6, <4>7, <4>8
    <3>5. CASE front("mac").action # "GEN_MAC"
      <4>1. UNCHANGED digest /\ hold' = [hold EXCEPT !["mac"] = front("mac")] /\ pc'["mac"] = "cond"
        BY <1>1, <2>3, <3>5 DEF GenerateGet, Keep, Go
      <4>2. k = Total + 1 /\ front("mac") = DONE /\ pc["crypto"] = "exit"
        BY <1>10, <1>11, <3>1, <3>5
      <4>3. hold'["mac"] = DONE
        BY <1>1, <4>1, <4>2
      <4>4. DigestOK'
        BY <1>6, <1>10, <4>1, <4>2, <4>3 DEF DigestOK
      <4>5. SealedInOrder'
        <5>1. MacTook' = k + 1
          BY <4>1, <4>3
        <5>2. CryptoGave' = CryptoGave /\ Len(queue["mac"]) = CryptoGave - k
          BY <1>6, <1>10, <3>2 DEF SealedInOrder
        <5>3. Len(queue'["mac"]) = CryptoGave - (k + 1)
          BY <1>10, <3>3, <4>2, <5>2
        <5>4. Len(queue'["mac"]) = CryptoGave' - MacTook'
          BY <5>1, <5>2, <5>3
        <5>. QED
          BY <1>10, <3>3, <5>1, <5>4 DEF SealedInOrder
      <4>6. OutInOrder'
        BY <1>6, <1>10, <3>1, <3>3, <4>1 DEF OutInOrder
      <4>. QED
        BY <4>4, <4>5, <4>6
    <3>. QED
      BY <3>4, <3>5
  <2>4. CASE GeneratePut
    <3>1. /\ pc["mac"] = "put" /\ pc'["mac"] = "cond" /\ UNCHANGED macVars
          /\ queue'["write"] = Append(queue["write"], hold["mac"]) /\ queue'["mac"] = queue["mac"]
          /\ hold'["mac"] = NULL
      BY <1>1, <2>4 DEF GeneratePut, Goto, Put, Keep, Held
    <3>2. /\ hold["mac"] \in Good /\ hold["mac"] = OutItems[Len(digest) - 1]
          /\ Len(digest) >= 1 /\ Len(digest) <= Total + 1
      BY <1>1, <1>6, <3>1 DEF DigestOK, TypeInv, HoldsTyped
    <3>3. hold["mac"] # DONE
      <4>1. Len(digest) - 1 \in 0 .. Total
        BY <1>10, <3>2
      <4>2. OutItems[Len(digest) - 1].action # "DONE"
        BY <4>1, SealedItem
      <4>. QED
        BY <3>2, <4>2, DoneType
    <3>4. WriteTook + Len(queue["write"]) = Len(digest) - 1
      BY <1>6, <1>10, <3>1 DEF OutInOrder
    <3>5. /\ Len(queue'["write"]) = Len(queue["write"]) + 1
          /\ Holds(queue'["write"], OutItems, WriteTook)
      BY <1>12, <3>1, <3>2, <3>4
    <3>6. DigestOK'
      BY <1>6, <1>10, <3>1 DEF DigestOK, macVars
    <3>7. SealedInOrder'
      BY <1>6, <1>10, <3>1, <3>3 DEF SealedInOrder, macVars
    <3>8. OutInOrder'
      <4>1. MacGave' = Len(digest)
        BY <3>1 DEF macVars
      <4>. QED
        BY <1>10, <3>4, <3>5, <4>1 DEF OutInOrder
    <3>. QED
      BY <3>6, <3>7, <3>8
  <2>5. CASE GenerateAppend
    <3>. DEFINE mac == Chunk("MAC", MacId, <<>>, digest, Block)
    <3>1. /\ pc["mac"] = "append" /\ pc'["mac"] = "flush" /\ UNCHANGED <<hold, macVars>>
          /\ queue'["write"] = Append(queue["write"], mac) /\ queue'["mac"] = queue["mac"]
      BY <1>1, <2>5 DEF GenerateAppend, Goto, Put
    <3>2. Len(digest) = Total + 1 /\ pc["crypto"] = "exit" /\ hold["mac"] \in {NULL, DONE}
      BY <1>6, <3>1 DEF DigestOK
    <3>3. digest = Hashed
      <4>1. Hashed \in Seq(Pieces) /\ Len(Hashed) = Total + 1
        BY OutputFacts
      <4>2. \A i \in 1 .. Len(digest) : digest[i] = Hashed[i]
        BY <1>6 DEF DigestOK
      <4>. QED
        BY <1>1, <3>2, <4>1, <4>2, SeqEqual
    <3>4. WriteTook + Len(queue["write"]) = Total + 1
      BY <1>6, <1>10, <3>1, <3>2 DEF OutInOrder
    <3>5. mac = OutItems[Total + 1] /\ mac \in Good
      <4>1. mac = OutItems[Total + 1]
        BY <3>3, LastItems
      <4>2. /\ "MAC" \in Actions \ {"data"} /\ MacId \in Int
            /\ MacId \in {HeaderId, MacId, NoId} \cup 1 .. DataChunks(file.size)
            /\ <<>> \in Seq(Int) /\ Len(<<>>) <= 1 /\ digest \in Seq(Pieces)
            /\ "MAC" # "MAC" => digest = <<>>
            /\ Block \in 0 .. HeaderSize + MaxChunk /\ Block \in Int
        BY <1>1, PipelineAssumption DEF Actions, MacId, HeaderSize
      <4>3. mac \in Good
        BY ONLY <4>2, GoodChunk
      <4>. QED
        BY <4>1, <4>3
    <3>. HIDE DEF mac
    <3>6. /\ Len(queue'["write"]) = Len(queue["write"]) + 1
          /\ Holds(queue'["write"], OutItems, WriteTook)
      BY <1>12, <3>1, <3>4, <3>5
    <3>7. DigestOK'
      BY <1>6, <1>10, <3>1, <3>2 DEF DigestOK, macVars
    <3>8. SealedInOrder'
      BY <1>6, <1>10, <3>1 DEF SealedInOrder, macVars
    <3>9. OutInOrder'
      <4>1. MacGave' = Total + 2
        BY <1>10, <3>1
      <4>. QED
        BY <1>10, <3>4, <3>6, <4>1 DEF OutInOrder
    <3>. QED
      BY <3>7, <3>8, <3>9
  <2>6. CASE MacDone
    <3>1. /\ pc["mac"] = "flush" /\ pc'["mac"] = "exit" /\ UNCHANGED <<hold, macVars>>
          /\ queue'["write"] = Append(queue["write"], DONE) /\ queue'["mac"] = queue["mac"]
      BY <1>1, <2>6 DEF MacDone, Goto, Put
    <3>2. WriteTook + Len(queue["write"]) = Total + 2
      BY <1>6, <1>10, <3>1 DEF OutInOrder
    <3>3. DONE = OutItems[WriteTook + Len(queue["write"])]
      BY <1>10, <3>2, LastItems
    <3>4. /\ Len(queue'["write"]) = Len(queue["write"]) + 1
          /\ Holds(queue'["write"], OutItems, WriteTook)
      BY <1>10, <1>12, <3>1, <3>3
    <3>5. DigestOK'
      BY <1>6, <1>10, <3>1 DEF DigestOK, macVars
    <3>6. SealedInOrder'
      BY <1>6, <1>10, <3>1 DEF SealedInOrder, macVars
    <3>7. OutInOrder'
      <4>1. MacGave' = Total + 3
        BY <1>10, <3>1
      <4>. QED
        BY <1>10, <3>2, <3>4, <4>1 DEF OutInOrder
    <3>. QED
      BY <3>5, <3>6, <3>7
  <2>. QED
    BY <1>2, <2>1, <2>2, <2>3, <2>4, <2>5, <2>6
<1>. QED
  BY <1>7, <1>8, <1>9, <1>13

\* What is written of a chunk that arrives.
LEMMA OutPiece ==
  ASSUME TypeInv, Encrypting, NEW k \in 0 .. Total + 1, OutItems[k] \in Good
  PROVE  /\ [Data(OutItems[k]) EXCEPT !.size = OutItems[k].size] = Output[k + 1]
         /\ OutItems[k].action # "DONE"
<1>. DEFINE c == OutItems[k]
<1>1. c \in Chunks
  BY GoodFacts
<1>2. Data(c) = Output[k + 1] /\ c.action # "DONE"
  <2>1. CASE k \in 0 .. Total
    <3>1. k + 1 \in 1 .. Total + 1
      BY <2>1, TotalFacts
    <3>. QED
      BY <2>1, <3>1, SealedItem, OutputFacts
  <2>2. CASE k = Total + 1
    <3>1. k + 1 = Total + 2
      BY <2>2, TotalFacts
    <3>. QED
      BY <2>2, <3>1, LastItems
  <2>. QED
    BY <2>1, <2>2, TotalFacts
<1>. HIDE DEF c
<1>3. [Data(c) EXCEPT !.size = c.size] = Data(c)
  BY <1>1 DEF Data, Chunks
<1>. QED
  BY <1>2, <1>3 DEF c

\* The steps of the write thread.
LEMMA WriteKeeps ==
  ASSUME TypeInv, EncInv, Encrypting, WriteStep
  PROVE  EncInv'
<1>. USE DEF Threads, Queues
<1>1. /\ Started /\ Writer /\ Launched
      /\ pc \in [Threads \cup {"main"} -> Pcs] /\ hold \in [Threads -> Good \cup {NULL}]
      /\ queue \in [Queues -> Seq(Good)]
      /\ pc["write"] \in {"start", "loop", "take", "write", "finish", "rename", "stop", "exit"}
  BY DEF WriteStep, TypeInv, PcsTyped, HoldsTyped, QueuesTyped, WritePcs, Started, Launched
<1>2. /\ UNCHANGED <<readVars, cryptoVars, macVars, status, file>>
      /\ OthersKeep("write")
      /\ queue'["crypto"] = queue["crypto"] /\ queue'["mac"] = queue["mac"]
      /\ pc["write"] # "exit"
  BY <1>1 DEF WriteStep, Writer, WriteOpen, WriteTurn, WriteTake, WriteChunk, WriteFinish,
              WriteRename, WriteStop, Goto, Go, Put, Keep, deque, flagVars, OthersKeep
<1>3. UNCHANGED Fixed
  BY <1>2, FixedFacts
<1>4. /\ running
      /\ error = "none" => KeepGoing /\ Healthy
      /\ Healthy => /\ PlainInOrder /\ SealedInOrder /\ OutInOrder
                    /\ ReaderOK /\ CipherOK /\ DigestOK /\ OutputOK
      /\ pc["main"] # "over" /\ pc'["main"] # "over" /\ pc'["main"] # "start"
      /\ status' = NULL /\ status' # "SUCCESS"
  <2>1. /\ Fate /\ status' = status /\ pc["main"] # "over" 
        /\ pc'["main"] # "over" /\ pc'["main"] # "start"
    BY <1>1, <1>2 DEF EncInv, Started, OthersKeep
  <2>2. running /\ status = NULL /\ status # "SUCCESS"
    BY <1>2, <2>1, StatusAssumption DEF Fate, Statuses
  <2>. QED
    BY <1>1, <2>1, <2>2 DEF EncInv, Healthy, KeepGoing
<1>5. /\ Total' = Total /\ Total \in Nat /\ OutItems' = OutItems /\ Output' = Output
      /\ MacGave' = MacGave /\ MacGave \in Int
      /\ Healthy /\ MacGave > Total + 2 => pc["mac"] = "exit"
      /\ Len(queue["write"]) \in Nat
      /\ temp # NULL => temp \in Seq(Chunks) /\ Len(temp) \in Nat
      /\ pc'["mac"] = pc["mac"]
      /\ Output # NULL /\ Output \in Seq(Chunks) /\ Len(Output) = Total + 2
  <2>1. Total' = Total /\ Total \in Nat /\ OutItems' = OutItems /\ Output' = Output
        /\ Len(queue["write"]) \in Nat
        /\ Output # NULL /\ Output \in Seq(Chunks) /\ Len(Output) = Total + 2
        /\ digest \in Seq(Pieces)
    BY <1>1, <1>3, TotalFacts, OutputFacts DEF Fixed, TypeInv, MacTyped
  <2>2. MacGave' = MacGave /\ MacGave \in Int
    BY <1>2, <2>1 DEF MacGave, OthersKeep, macVars
  <2>3. Healthy /\ MacGave > Total + 2 => pc["mac"] = "exit"
    BY <1>4, <2>1 DEF MacGave, DigestOK
  <2>4. temp # NULL => temp \in Seq(Chunks) /\ Len(temp) \in Nat
    BY DEF TypeInv, WriteTyped
  <2>. QED
    BY <1>2, <2>1, <2>2, <2>3, <2>4 DEF OthersKeep
<1>6. Healthy' => Healthy
  BY <1>1, <1>2 DEF Healthy, OthersKeep
<1>7. ASSUME Fate', Healthy' => OutInOrder' /\ OutputOK' PROVE EncInv'
  <2>. SUFFICES ASSUME Healthy'
                PROVE  (PlainInOrder /\ SealedInOrder /\ ReaderOK /\ CipherOK /\ DigestOK)'
    BY <1>4, <1>7 DEF EncInv
  <2>1. PlainInOrder /\ SealedInOrder /\ ReaderOK /\ CipherOK /\ DigestOK
    BY <1>4, <1>6
  <2>2. PlainInOrder' /\ SealedInOrder'
    BY <1>2, <1>3, <2>1
    DEF PlainInOrder, SealedInOrder, Holds, ReadGave, CryptoTook, CryptoGave, MacTook, HeldCount,
        OthersKeep, readVars, cryptoVars, macVars, Fixed
  <2>3. ReaderOK' /\ CipherOK' /\ DigestOK'
    BY <1>2, <1>3, <2>1
    DEF ReaderOK, CipherOK, DigestOK, OthersKeep, readVars, cryptoVars, macVars, Fixed
  <2>. QED
    BY <2>2, <2>3
<1>8. Fate
  BY DEF EncInv
<1>. USE DEF WriteTook, HeldCount
<1>9. CASE WriteOpen
  <2>1. pc["write"] = "start" /\ UNCHANGED <<running, queue, hold, target>>
    BY <1>9 DEF WriteOpen
  <2>2. target = NULL /\ running'
    BY <1>4, <1>8, <2>1 DEF Fate, OutputOK
  <2>3. CASE pc' = [pc EXCEPT !["write"] = "loop"] /\ temp' = <<>> /\ error' = error
    <3>1. pc'["write"] = "loop" /\ Len(temp') = 0 /\ temp' # NULL
      BY <1>1, <2>3, FileNotNull
    <3>2. Fate'
      BY <1>3, <1>4, <1>5, <1>8, <2>1, <2>2, <2>3, <3>1 DEF Fate
    <3>3. Healthy' => OutInOrder' /\ OutputOK'
      <4>. SUFFICES ASSUME Healthy' PROVE OutInOrder' /\ OutputOK'
        OBVIOUS
      <4>1. OutInOrder /\ temp = NULL /\ hold["write"] = NULL
        BY <1>4, <1>6, <2>1 DEF OutputOK
      <4>2. OutInOrder'
        BY <1>5, <2>1, <3>1, <4>1 DEF OutInOrder
      <4>3. OutputOK'
        BY <1>5, <2>1, <2>2, <3>1, <4>1 DEF OutputOK
      <4>. QED
        BY <4>2, <4>3
    <3>. QED
      BY <1>7, <3>2, <3>3
  <2>4. CASE pc' = [pc EXCEPT !["write"] = "exit"] /\ temp' = temp /\ error' = "FILE_IO_FAIL"
    <3>1. Fate' /\ ~Healthy'
      BY <1>1, <1>4, <1>8, <2>1, <2>2, <2>4 DEF Fate, Healthy
    <3>. QED
      BY <1>7, <3>1
  <2>. QED
    BY <1>9, <2>3, <2>4 DEF WriteOpen, Go
<1>10. CASE WriteTurn
  <2>1. /\ pc["write"] = "loop" /\ pc'["write"] \in {"take", "finish"}
        /\ UNCHANGED <<flagVars, queue, hold, temp, target>>
        /\ error = "none" => pc'["write"] = "take"
    BY <1>1, <1>4, <1>10 DEF WriteTurn, Goto, writeVars
  <2>2. Fate'
    BY <1>4, <1>5, <1>8, <2>1 DEF Fate, flagVars
  <2>3. Healthy' => OutInOrder' /\ OutputOK'
    <3>. SUFFICES ASSUME Healthy' PROVE OutInOrder' /\ OutputOK'
      OBVIOUS
    <3>1. pc'["write"] = "take" /\ OutInOrder /\ OutputOK
      BY <1>4, <1>6, <2>1 DEF Healthy, flagVars
    <3>. QED
      BY <1>5, <2>1, <3>1 DEF OutInOrder, OutputOK
  <2>. QED
    BY <1>7, <2>2, <2>3
<1>11. CASE WriteTake
  <2>1. /\ pc["write"] = "take" /\ pc'["write"] \in {"loop", "finish", "write"}
        /\ UNCHANGED <<flagVars, temp, target>>
    BY <1>1, <1>11 DEF WriteTake, Go, writeVars
  <2>2. Fate'
    BY <1>4, <1>5, <1>8, <2>1 DEF Fate, flagVars
  <2>3. Healthy' => OutInOrder' /\ OutputOK'
    <3>. SUFFICES ASSUME Healthy' PROVE OutInOrder' /\ OutputOK'
      OBVIOUS
    <3>1. /\ OutInOrder /\ OutputOK /\ target = NULL
          /\ temp # NULL /\ hold["write"] = NULL /\ WriteTook = Len(temp)
          /\ Len(temp) <= Total + 2 /\ Len(temp) \in Nat
          /\ \A i \in 1 .. Len(temp) : temp[i] = Output[i]
      BY <1>4, <1>5, <1>6, <2>1 DEF OutputOK, TypeInv, WriteTyped
    <3>2. CASE front("write") = NULL
      <4>1. pc'["write"] = "loop" /\ UNCHANGED <<queue, hold>>
        BY <1>1, <1>11, <3>2 DEF WriteTake, Go, SizeReached
      <4>. QED
        BY <1>5, <2>1, <3>1, <4>1 DEF OutInOrder, OutputOK
    <3>3. CASE front("write") # NULL
      <4>. DEFINE k == Len(temp)
      <4>1. /\ queue["write"] # <<>> /\ front("write") = Head(queue["write"])
            /\ queue' = [queue EXCEPT !["write"] = Tail(@)]
            /\ queue["write"] \in Seq(Good) /\ front("write") \in Good
        BY <1>1, <1>11, <3>3, FrontType DEF WriteTake, deque
      <4>2. front("write") = OutItems[k] /\ Holds(Tail(queue["write"]), OutItems, k + 1)
        BY <3>1, <4>1, HoldsTake DEF OutInOrder
      <4>3. /\ queue'["write"] = Tail(queue["write"]) /\ Len(queue["write"]) >= 1
            /\ Len(queue'["write"]) = Len(queue["write"]) - 1
        BY <1>1, <4>1
      <4>6. Len(queue["write"]) = MacGave - k
        BY <3>1 DEF OutInOrder
      <4>4. CASE front("write").action = "DONE"
        <5>1. pc'["write"] = "finish"
          BY <1>1, <1>11, <3>3, <4>4 DEF WriteTake, Go
        <5>2. ~(k \in 0 .. Total + 1)
          <6>. SUFFICES ASSUME k \in 0 .. Total + 1 PROVE FALSE
            OBVIOUS
          <6>1. OutItems[k].action # "DONE"
            BY <4>1, <4>2, OutPiece
          <6>. QED
            BY <4>2, <4>4, <6>1
        <5>3. k = Total + 2
          BY <1>5, <3>1, <5>2
        <5>4. pc["mac"] = "exit"
          BY <1>5, <1>6, <3>1, <4>3, <5>3 DEF OutInOrder
        <5>5. temp = Output
          BY <1>5, <3>1, <5>3, SeqEqual
        <5>6. OutputOK'
          BY <1>5, <2>1, <3>1, <5>1, <5>4, <5>5 DEF OutputOK
        <5>7. OutInOrder'
          <6>1. WriteTook' = Total + 3 /\ k + 1 = Total + 3
            BY <1>5, <5>1, <5>3
          <6>2. Len(queue'["write"]) = MacGave - (Total + 3)
            BY <1>5, <4>3, <4>6, <5>3
          <6>3. Len(queue'["write"]) = MacGave' - WriteTook'
            BY <1>5, <6>1, <6>2
          <6>4. Holds(queue'["write"], OutItems', WriteTook')
            BY <1>5, <4>2, <4>3, <6>1
          <6>. QED
            BY <6>3, <6>4 DEF OutInOrder
        <5>. QED
          BY <5>6, <5>7
      <4>5. CASE front("write").action # "DONE"
        <5>1. pc'["write"] = "write" /\ hold'["write"] = front("write") /\ front("write") # NULL
          BY <1>1, <1>11, <3>3, <4>5 DEF WriteTake, Go, Keep, SizeReached
        <5>2. k <= Total + 1
          <6>1. k = Total + 2 => OutItems[k] = DONE
            BY <1>5, LastItems
          <6>. QED
            BY <1>5, <3>1, <4>2, <4>5, <6>1, DoneType
        <5>3. OutputOK'
          BY <1>5, <2>1, <3>1, <4>2, <5>1, <5>2 DEF OutputOK
        <5>4. OutInOrder'
          <6>1. WriteTook' = k + 1
            BY <2>1, <3>1, <5>1
          <6>2. Len(queue'["write"]) = MacGave - (k + 1)
            BY <1>5, <3>1, <4>3, <4>6
          <6>3. Len(queue'["write"]) = MacGave' - WriteTook'
            BY <1>5, <6>1, <6>2
          <6>4. Holds(queue'["write"], OutItems', WriteTook')
            BY <1>5, <4>2, <4>3, <6>1
          <6>. QED
            BY <6>3, <6>4 DEF OutInOrder
        <5>. QED
          BY <5>3, <5>4
      <4>. QED
        BY <4>4, <4>5
    <3>. QED
      BY <3>2, <3>3
  <2>. QED
    BY <1>7, <2>2, <2>3
<1>12. CASE WriteChunk
  <2>1. pc["write"] = "write" /\ UNCHANGED <<running, queue, target>>
    BY <1>12 DEF WriteChunk
  <2>2. target = NULL /\ running'
    BY <1>4, <1>8, <2>1 DEF Fate, OutputOK
  <2>3. CASE /\ Go("write", "loop")
             /\ temp' = Append(temp, [Data(hold["write"]) EXCEPT !.size = BytesToWrite])
             /\ Keep("write", NULL)
             /\ error' = error
    <3>1. pc'["write"] = "loop" /\ hold'["write"] = NULL
      BY <1>1, <2>3 DEF Go, Keep
    <3>2. Fate'
      BY <1>4, <1>5, <1>8, <2>1, <2>2, <2>3, <3>1 DEF Fate
    <3>3. Healthy' => OutInOrder' /\ OutputOK'
      <4>. SUFFICES ASSUME Healthy' PROVE OutInOrder' /\ OutputOK'
        OBVIOUS
      <4>. DEFINE k == Len(temp)
      <4>1. /\ OutInOrder /\ OutputOK
            /\ temp \in Seq(Chunks) /\ temp # NULL /\ k \in Nat
            /\ \A i \in 1 .. k : temp[i] = Output[i]
            /\ hold["write"] = OutItems[k] /\ k <= Total + 1 /\ hold["write"] # NULL
            /\ hold["write"] \in Good
        BY <1>1, <1>4, <1>5, <1>6, <2>1 DEF OutputOK, TypeInv, WriteTyped, HoldsTyped
      <4>2. [Data(hold["write"]) EXCEPT !.size = BytesToWrite] = Output[k + 1]
        <5>1. BytesToWrite = hold["write"].size
          BY DEF BytesToWrite
        <5>2. k \in 0 .. Total + 1
          BY <1>5, <4>1
        <5>. QED
          BY <4>1, <5>1, <5>2, OutPiece
      <4>3. Output[k + 1] \in Chunks
        <5>1. k + 1 \in 1 .. Len(Output)
          BY <1>5, <4>1
        <5>. QED
          BY <1>5, <5>1
      <4>4. temp' = Append(temp, Output[k + 1])
        BY <2>3, <4>2
      <4>5. /\ Len(temp') = k + 1 /\ temp' \in Seq(Chunks)
            /\ \A i \in 1 .. k : temp'[i] = temp[i]
            /\ temp'[k + 1] = Output[k + 1]
        BY <4>1, <4>3, <4>4
      <4>6. temp' # NULL
        BY <4>5, FileNotNull
      <4>7. \A i \in 1 .. Len(temp') : temp'[i] = Output[i]
        BY <4>1, <4>5
      <4>. HIDE DEF k
      <4>8. OutInOrder'
        <5>1. WriteTook = k + 1
          BY <2>1, <4>1 DEF k
        <5>2. WriteTook' = k + 1
          BY <3>1, <4>1, <4>5, <4>6
        <5>. QED
          BY <1>5, <2>1, <4>1, <5>1, <5>2 DEF OutInOrder
      <4>9. OutputOK'
        BY <1>5, <2>1, <2>2, <3>1, <4>1, <4>5, <4>7 DEF OutputOK
      <4>. QED
        BY <4>8, <4>9
    <3>. QED
      BY <1>7, <3>2, <3>3
  <2>4. CASE Go("write", "finish") /\ error' = "FILE_IO_FAIL" /\ UNCHANGED <<temp, hold>>
    <3>1. pc'["write"] = "finish"
      BY <1>1, <2>4 DEF Go
    <3>2. Fate' /\ ~Healthy'
      BY <1>4, <1>8, <2>1, <2>2, <2>4, <3>1 DEF Fate, Healthy
    <3>. QED
      BY <1>7, <3>2
  <2>. QED
    BY <1>12, <2>3, <2>4 DEF WriteChunk
<1>13. CASE WriteFinish
  <2>1. /\ pc["write"] = "finish" /\ pc'["write"] = IF error = "none" THEN "rename" ELSE "exit"
        /\ UNCHANGED <<flagVars, queue, hold, temp, target>>
    BY <1>1, <1>13 DEF WriteFinish, Goto, writeVars
  <2>2. Fate'
    BY <1>4, <1>5, <1>8, <2>1 DEF Fate, flagVars
  <2>3. Healthy' => OutInOrder' /\ OutputOK'
    <3>. SUFFICES ASSUME Healthy' PROVE OutInOrder' /\ OutputOK'
      OBVIOUS
    <3>1. pc'["write"] = "rename" /\ OutInOrder /\ OutputOK
      BY <1>4, <1>6, <2>1 DEF Healthy, flagVars
    <3>. QED
      BY <1>5, <2>1, <3>1 DEF OutInOrder, OutputOK
  <2>. QED
    BY <1>7, <2>2, <2>3
<1>14. CASE WriteRename
  <2>1. /\ pc["write"] = "rename" /\ pc'["write"] = "stop"
        /\ UNCHANGED <<flagVars, queue, hold>>
        /\ (target' = temp /\ temp' = NULL) \/ UNCHANGED <<target, temp>>
    BY <1>1, <1>14 DEF WriteRename, Goto
  <2>2. error = "none" /\ OutInOrder /\ OutputOK /\ temp = Output /\ target = NULL /\ pc["mac"] = "exit"
    BY <1>4, <1>8, <2>1 DEF Fate, OutputOK
  <2>3. Fate'
    BY <1>4, <1>5, <1>8, <2>1, <2>2 DEF Fate, flagVars
  <2>4. OutInOrder' /\ OutputOK'
    BY <1>5, <2>1, <2>2 DEF OutInOrder, OutputOK
  <2>. QED
    BY <1>7, <2>3, <2>4
<1>15. CASE WriteStop
  <2>1. /\ pc["write"] = "stop" /\ pc'["write"] = "exit"
        /\ UNCHANGED <<error, queue, hold, temp, target>>
    BY <1>1, <1>15 DEF WriteStop, Goto, writeVars
  <2>2. error = "none" /\ OutInOrder /\ OutputOK /\ pc["mac"] = "exit"
    BY <1>4, <1>8, <2>1 DEF Fate, OutputOK
  <2>3. Fate'
    BY <1>4, <1>5, <1>8, <2>1, <2>2 DEF Fate
  <2>4. OutInOrder' /\ OutputOK'
    BY <1>5, <2>1, <2>2 DEF OutInOrder, OutputOK
  <2>. QED
    BY <1>7, <2>3, <2>4
<1>. QED
  BY <1>1, <1>9, <1>10, <1>11, <1>12, <1>13, <1>14, <1>15 DEF Writer

\* The threads start with the header in the first queue.
LEMMA StartKeeps ==
  ASSUME TypeInv, EncInv, Encrypting, StartThreads
  PROVE  EncInv'
<1>. USE DEF Threads, Queues
<1>1. /\ pc["main"] = "start" /\ Fate /\ NotYet
      /\ pc'["main"] \in {"bar", "join"} /\ \A t \in Threads : pc'[t] = pc[t]
      /\ UNCHANGED <<file, flagVars, hold, threadVars, status>>
      /\ queue' = [queue EXCEPT !["crypto"] = <<Chunk("ENCRYPT", HeaderId, <<>>, <<>>, HeaderSize)>>]
  BY DEF StartThreads, Goto, EncInv, TypeInv, PcsTyped
<1>2. UNCHANGED Fixed /\ Total \in Nat /\ file.size \in Nat
  BY <1>1, FixedFacts, TotalFacts
<1>3. Fate'
  BY <1>1, <1>2 DEF Fate, flagVars, threadVars, writeVars, Fixed
<1>4. /\ header' = TRUE /\ chain' = -1 /\ bytesRead' = 0 /\ digest' = <<>>
      /\ temp' = NULL /\ target' = NULL
      /\ \A t \in Threads : pc'[t] = "start" /\ hold'[t] = NULL
      /\ queue'["crypto"] = <<PlainItems[0]>> /\ queue'["mac"] = <<>> /\ queue'["write"] = <<>>
  <2>1. /\ header' = TRUE /\ chain' = -1 /\ bytesRead' = 0 /\ digest' = <<>>
        /\ temp' = NULL /\ target' = NULL
        /\ \A t \in Threads : pc'[t] = "start" /\ hold'[t] = NULL
    BY <1>1 DEF NotYet, threadVars, readVars, cryptoVars, macVars, writeVars, TypeInv, CryptoTyped
  <2>2. queue'["crypto"] = <<PlainItems[0]>> /\ queue'["mac"] = <<>> /\ queue'["write"] = <<>>
    BY <1>1, LastItems DEF NotYet
  <2>. QED
    BY <2>1, <2>2
<1>5. DataChunks(0) = 0 /\ 0 * MaxChunk = 0
  BY DataChunksUnique, PipelineAssumption
<1>6. DONE # NULL
  BY DoneType, GoodFacts
<1>7. PlainInOrder'
  <2>1. ReadGave' = 1 /\ CryptoTook' = 0
    BY <1>4, <1>5 DEF ReadGave, CryptoTook, HeldCount
  <2>2. Len(queue'["crypto"]) = 1 /\ queue'["crypto"][1] = PlainItems'[0 + 1 - 1]
    BY <1>2, <1>4 DEF Fixed
  <2>. QED
    BY <2>1, <2>2 DEF PlainInOrder, Holds
<1>8. SealedInOrder' /\ OutInOrder'
  BY <1>4, <1>6 DEF SealedInOrder, OutInOrder, Holds, CryptoGave, MacTook, MacGave, WriteTook, HeldCount
<1>9. ReaderOK' /\ CipherOK'
  BY <1>1, <1>2, <1>4, <1>5 DEF ReaderOK, CipherOK, Fixed
<1>10. DigestOK' /\ OutputOK'
  BY <1>1, <1>2, <1>4, <1>6 DEF DigestOK, OutputOK, Fixed
<1>. QED
  BY <1>1, <1>3, <1>7, <1>8, <1>9, <1>10 DEF EncInv

\* The other steps of main.
LEMMA MainKeeps ==
  ASSUME TypeInv, EncInv, Encrypting, MainStep \/ BarFull
  PROVE  EncInv'
<1>. USE DEF Threads
<1>1. Fate /\ pc \in [Threads \cup {"main"} -> Pcs] /\ error \in Errors \cup {"none"}
  BY DEF EncInv, TypeInv, PcsTyped, FlagsTyped
<1>2. CASE Refuse
  <2>1. /\ pc["main"] = "start" /\ pc'["main"] = "over" /\ \A t \in Threads : pc'[t] = pc[t]
        /\ status' \in {"FILE_TOO_SMALL", "KEY_GENERATION_FAIL", "QUEUE_OPERATION_FAIL"}
        /\ UNCHANGED <<file, flagVars, threadVars>>
    BY <1>1, <1>2 DEF Refuse, Return, Go
  <2>2. NotYet /\ status' # NULL /\ status' # "SUCCESS"
    BY <2>1, StatusAssumption DEF EncInv, Statuses, Errors
  <2>3. Fate'
    BY <2>1, <2>2 DEF Fate, NotYet, flagVars, threadVars, writeVars
  <2>. QED
    BY <2>1, <2>3 DEF EncInv, Healthy, Launched
<1>3. CASE JoinAndCleanUp
  <2>1. /\ pc["main"] = "join" /\ pc'["main"] = "over" /\ \A t \in Threads : pc[t] = "exit" /\ pc'[t] = "exit"
        /\ status' = IF error = "none" THEN "SUCCESS" ELSE error
        /\ temp' = IF error = "none" THEN temp ELSE NULL
        /\ UNCHANGED <<file, flagVars, target>>
    BY <1>1, <1>3 DEF JoinAndCleanUp, Return, Go
  <2>2. UNCHANGED Fixed
    BY <2>1, FixedFacts
  <2>3. error = "none" => target = Output \/ (target = NULL /\ temp = Output)
    BY <2>1 DEF EncInv, Healthy, Launched, OutputOK
  <2>4. status' # NULL /\ (status' = "SUCCESS" <=> error = "none")
    BY <1>1, <2>1, StatusAssumption DEF Statuses, Errors
  <2>5. Fate'
    BY <1>1, <2>1, <2>2, <2>3, <2>4 DEF Fate, flagVars, Fixed
  <2>. QED
    BY <2>1, <2>5 DEF EncInv, Healthy, Launched
<1>4. CASE LeaveBar \/ BarFull
  <2>1. /\ pc["main"] = "bar" /\ pc'["main"] = "join" /\ \A t \in Threads : pc'[t] = pc[t]
        /\ UNCHANGED <<file, flagVars, queue, hold, threadVars, status>>
    BY <1>1, <1>4 DEF LeaveBar, BarFull, Goto
  <2>2. UNCHANGED Fixed
    BY <2>1, FixedFacts
  <2>3. Fate'
    BY <1>1, <2>1, <2>2 DEF Fate, flagVars, threadVars, writeVars, Fixed
  <2>. SUFFICES ASSUME Healthy'
                PROVE  (/\ PlainInOrder /\ SealedInOrder /\ OutInOrder
                        /\ ReaderOK /\ CipherOK /\ DigestOK /\ OutputOK)'
    BY <2>1, <2>3 DEF EncInv
  <2>4. /\ PlainInOrder /\ SealedInOrder /\ OutInOrder
        /\ ReaderOK /\ CipherOK /\ DigestOK /\ OutputOK
    BY <2>1 DEF EncInv, Healthy, Launched, flagVars
  <2>5. PlainInOrder' /\ SealedInOrder' /\ OutInOrder'
    BY <2>1, <2>2, <2>4
    DEF PlainInOrder, SealedInOrder, OutInOrder, Holds, ReadGave, CryptoTook, CryptoGave, MacTook,
        MacGave, WriteTook, HeldCount, threadVars, readVars, cryptoVars, macVars, writeVars, Fixed
  <2>6. ReaderOK' /\ CipherOK'
    BY <2>1, <2>2, <2>4
    DEF ReaderOK, CipherOK, threadVars, readVars, cryptoVars, Fixed
  <2>7. DigestOK' /\ OutputOK'
    BY <2>1, <2>2, <2>4
    DEF DigestOK, OutputOK, threadVars, macVars, writeVars, Fixed
  <2>. QED
    BY <2>5, <2>6, <2>7
<1>. QED
  BY <1>2, <1>3, <1>4, StartKeeps DEF MainStep

LEMMA StutterKeeps ==
  ASSUME EncInv, UNCHANGED vars
  PROVE  EncInv'
<1>1. UNCHANGED <<pipelineVars, threadVars, status>>
  BY DEF vars
<1>2. UNCHANGED Fixed
  BY <1>1, FixedFacts DEF pipelineVars
<1>3. Fate' = Fate /\ NotYet' = NotYet /\ Healthy' = Healthy
  BY <1>1, <1>2
  DEF Fate, NotYet, Healthy, Launched, pipelineVars, flagVars, threadVars, readVars, cryptoVars,
      macVars, writeVars, Fixed
<1>4. PlainInOrder' = PlainInOrder /\ SealedInOrder' = SealedInOrder /\ OutInOrder' = OutInOrder
  BY <1>1, <1>2
  DEF PlainInOrder, SealedInOrder, OutInOrder, Holds, ReadGave, CryptoTook, CryptoGave, MacTook,
      MacGave, WriteTook, HeldCount, pipelineVars, threadVars, readVars, cryptoVars, macVars,
      writeVars, Fixed
<1>5. ReaderOK' = ReaderOK /\ CipherOK' = CipherOK /\ DigestOK' = DigestOK /\ OutputOK' = OutputOK
  BY <1>1, <1>2
  DEF ReaderOK, CipherOK, DigestOK, OutputOK, pipelineVars, threadVars, readVars, cryptoVars,
      macVars, writeVars, Fixed
<1>. QED
  BY <1>1, <1>3, <1>4, <1>5 DEF EncInv, pipelineVars

\* Every step of an encryption preserves the invariant.
LEMMA EncryptStep ==
  TypeInv /\ EncInv /\ Encrypting /\ [Next]_vars => EncInv'
  BY ReadKeeps, CryptoKeeps, MacKeeps, WriteKeeps, MainKeeps, StutterKeeps
  DEF Next, Sleep, Terminated

-----------------------------------------------------------------------------
(* What follows for the files, the status and the threads *)

\* Whatever failed, a target that was replaced is the whole encrypted file.
LEMMA EncryptCommits ==
  TypeInv /\ EncInv /\ Encrypting => CommitIsAsPromised
  BY DEF EncInv, Fate, CommitIsAsPromised, Output, Expected

\* SUCCESS is only returned when the encrypted file is there.
LEMMA EncryptSucceeds ==
  TypeInv /\ EncInv /\ Encrypting => SuccessIsReal
<1>1. TypeInv /\ Encrypting => file.damage = "intact"
  BY FileFacts DEF TypeInv, FlagsTyped
<1>. QED
  BY <1>1 DEF EncInv, Fate, SuccessIsReal, Output, Expected

\* Every other status leaves the target as it was.
LEMMA EncryptOverwrites ==
  EncInv => OverwritesOnlyOnSuccess
  BY DEF EncInv, Fate, OverwritesOnlyOnSuccess

\* A thread sleeps on a queue whose other end is gone only after an error.
LEMMA EncryptOrphans ==
  ASSUME TypeInv, EncInv, Encrypting, NEW t \in Threads, Orphaned(t)
  PROVE  error # "none"
<1>. USE DEF Threads, Queues
<1>1. \/ t = "read" /\ pc["read"] \in {"queue", "flush"} /\ pc["crypto"] = "exit"
      \/ t = "crypto" /\ pc["crypto"] = "flush" /\ pc["mac"] = "exit"
      \/ t = "mac" /\ pc["mac"] \in {"put", "append", "flush"} /\ pc["write"] = "exit"
  BY DEF Orphaned, Sleeping, WaitsOn, ReadOut, CryptoOut, MacOut
<1>. SUFFICES ASSUME error = "none" PROVE FALSE
  OBVIOUS
<1>2. pc["main"] # "start" /\ pc["main"] # "over"
  BY <1>1 DEF EncInv, Fate, NotYet
<1>3. Healthy
  BY <1>2 DEF Healthy, Launched, TypeInv, PcsTyped, MainPcs
<1>. QED
  BY <1>1, <1>3 DEF EncInv, CipherOK, DigestOK, OutputOK

\* The items are numbered as the chunks of the file are.
LEMMA ItemNumbers ==
  ASSUME TypeInv, Encrypting
  PROVE  /\ Numbered(PlainItems, Total) /\ Numbered(SealedItems, Total) /\ Numbered(OutItems, Total)
         /\ \A k \in 0 .. Total : CipherItems[k].id = k
<1>1. Total \in Nat
  BY TotalFacts
<1>2. /\ \A a, k, seal, d, size : Chunk(a, k, seal, d, size).id = k
      /\ DONE.id = -3
  BY DEF Chunk, DONE, NoId
<1>3. ASSUME NEW k \in Nat, k <= Total
      PROVE  /\ PlainItems[k].id = k /\ SealedItems[k].id = k /\ OutItems[k].id = k
             /\ CipherItems[k].id = k
  BY <1>1, <1>2, <1>3 DEF PlainItems, SealedItems, OutItems, CipherItems
<1>4. ASSUME NEW k \in Nat, k > Total
      PROVE  /\ PlainItems[k].id < 1 /\ SealedItems[k].id < 1 /\ OutItems[k].id < 1
  <2>1. PlainItems[k] = DONE /\ SealedItems[k] = DONE
    BY <1>4, LastItems
  <2>2. OutItems[k] = DONE \/ OutItems[k] = Chunk("MAC", MacId, <<>>, Hashed, Block)
    <3>1. CASE k = Total + 1
      BY <3>1, LastItems
    <3>2. CASE k > Total + 1
      BY <3>2, LastItems
    <3>. QED
      BY <1>1, <1>4, <3>1, <3>2
  <2>3. OutItems[k].id \in {-3, -2}
    BY <1>2, <2>2 DEF MacId
  <2>. QED
    BY <1>2, <2>1, <2>3
<1>5. ASSUME NEW items, \A k \in Nat : k <= Total => items[k].id = k,
             \A k \in Nat : k > Total => items[k].id < 1
      PROVE  Numbered(items, Total)
  <2>1. items[0].id = 0
    BY <1>1, <1>5
  <2>. QED
    BY <1>1, <1>5, <2>1 DEF Numbered
<1>6. Numbered(PlainItems, Total)
  BY <1>3, <1>4, <1>5
<1>7. Numbered(SealedItems, Total)
  BY <1>3, <1>4, <1>5
<1>8. Numbered(OutItems, Total)
  BY <1>3, <1>4, <1>5
<1>9. \A k \in 0 .. Total : CipherItems[k].id = k
  BY <1>1, <1>3
<1>. QED
  BY <1>6, <1>7, <1>8, <1>9

\* What has been written are the first items of the output.
LEMMA WrittenNumbers ==
  ASSUME TypeInv, Encrypting, NEW s \in Seq(Chunks), Len(s) <= Total + 2,
         \A i \in 1 .. Len(s) : s[i] = Output[i]
  PROVE  Runs(s, 0, DataBefore(Len(s), Total))
<1>. DEFINE items == [k \in Nat |-> IF k < Total + 2 THEN Output[k + 1] ELSE DONE]
<1>1. Total \in Nat /\ Len(s) \in Nat
  BY TotalFacts
<1>2. ASSUME NEW k \in Nat
      PROVE  items[k].id = IF k <= Total THEN k ELSE IF k = Total + 1 THEN -2 ELSE -3
  <2>1. CASE k <= Total
    <3>1. items[k] = Output[k + 1] /\ k + 1 \in 1 .. Total + 1 /\ k \in 0 .. Total
      BY <1>1, <2>1
    <3>2. Output[k + 1] = Hashed[k + 1] /\ Hashed[k + 1] = Data(OutItems[k])
      BY <3>1, OutputFacts, SealedItem
    <3>3. OutItems[k] = Chunk("DECRYPT", k, <<k - 1>>, <<>>, SizeOf(k))
      BY <1>1, <3>1 DEF OutItems
    <3>4. Data(Chunk("DECRYPT", k, <<k - 1>>, <<>>, SizeOf(k))).id = k
      BY DEF Data, Chunk
    <3>. QED
      BY <2>1, <3>1, <3>2, <3>3, <3>4
  <2>2. CASE k = Total + 1
    <3>1. items[k] = Output[Total + 2]
      BY <1>1, <2>2
    <3>2. Output[Total + 2] = Data(Chunk("MAC", MacId, <<>>, Hashed, Block))
      BY LastItems
    <3>3. Data(Chunk("MAC", MacId, <<>>, Hashed, Block)).id = -2
      BY DEF Data, Chunk, MacId
    <3>. QED
      BY <1>1, <2>2, <3>1, <3>2, <3>3
  <2>3. CASE k > Total + 1
    <3>1. items[k] = DONE
      BY <1>1, <2>3
    <3>2. DONE.id = -3
      BY DEF DONE, Chunk, NoId
    <3>. QED
      BY <1>1, <2>3, <3>1, <3>2
  <2>. QED
    BY <1>1, <2>1, <2>2, <2>3
<1>3. Holds(s, items, 0)
  <2>1. ASSUME NEW i \in 1 .. Len(s) PROVE s[i] = items[0 + i - 1]
    <3>1. 0 + i - 1 \in Nat /\ 0 + i - 1 < Total + 2 /\ 0 + i - 1 + 1 = i
      BY <1>1
    <3>. QED
      BY <3>1
  <2>. QED
    BY <2>1 DEF Holds
<1>. HIDE DEF items
<1>4. Numbered(items, Total)
  BY <1>1, <1>2 DEF Numbered
<1>5. Runs(s, DataBefore(0, Total), DataBefore(Len(s), Total))
  BY <1>1, <1>3, <1>4, RunsOfItems
<1>. QED
  BY <1>5 DEF DataBefore

\* The chunks read are on their way in the order of the file.
LEMMA EncryptInOrder ==
  ASSUME TypeInv, EncInv, Encrypting
  PROVE  StreamInOrder
<1>. SUFFICES ASSUME Started, KeepGoing, pc["write"] \in {"loop", "take", "write"}
              PROVE  Runs(OnTheWay, 0, ChunksRead)
  BY DEF StreamInOrder
<1>. USE DEF Threads, Queues
<1>1. /\ PlainInOrder /\ SealedInOrder /\ OutInOrder
      /\ ReaderOK /\ CipherOK /\ DigestOK /\ OutputOK
  BY DEF EncInv, Healthy, Launched, Started, KeepGoing
<1>. DEFINE D(x) == DataBefore(x, Total)
<1>2. Total \in Nat /\ DataChunks(bytesRead) \in 0 .. Total
  BY TotalFacts
<1>3. /\ temp \in Seq(Chunks) /\ digest \in Seq(Pieces) /\ chain \in -1 .. Total
      /\ queue["crypto"] \in Seq(Chunks) /\ queue["mac"] \in Seq(Chunks) /\ queue["write"] \in Seq(Chunks)
  <2>1. temp # NULL
    BY DEF TypeInv, WriteTyped
  <2>2. \A q \in Queues : queue[q] \in Seq(Good)
    BY DEF TypeInv, QueuesTyped
  <2>3. Good \subseteq Chunks
    BY GoodFacts
  <2>4. \A q \in Queues : queue[q] \in Seq(Chunks)
    BY <2>2, <2>3
  <2>. QED
    BY <1>1, <2>1, <2>4 DEF TypeInv, WriteTyped, MacTyped, CipherOK
<1>4. /\ Numbered(PlainItems, Total) /\ Numbered(SealedItems, Total) /\ Numbered(OutItems, Total)
      /\ \A k \in 0 .. Total : CipherItems[k].id = k
  BY ItemNumbers
<1>5. temp # NULL /\ Len(temp) \in Nat /\ Len(digest) \in Nat /\ WriteTook = Len(temp) + HeldCount("write")
  BY <1>3, FileNotNull DEF WriteTook
<1>6. /\ ReadGave \in Nat /\ CryptoTook \in Nat /\ CryptoGave \in Nat
      /\ MacTook \in Nat /\ MacGave \in Nat /\ WriteTook \in Nat
  <2>1. ReadGave \in Nat
    BY <1>2 DEF ReadGave, HeldCount
  <2>2. CryptoTook \in Nat
    BY <1>2, <1>3 DEF CryptoTook
  <2>3. CryptoGave \in Nat
    BY <1>1, <1>2, <1>3 DEF CryptoGave, HeldCount, CipherOK
  <2>4. MacTook \in Nat /\ MacGave \in Nat
    BY <1>1, <1>2, <1>5 DEF MacTook, MacGave, DigestOK
  <2>5. WriteTook \in Nat
    BY <1>5 DEF HeldCount
  <2>. QED
    BY <2>1, <2>2, <2>3, <2>4, <2>5
<1>7. Runs(temp, 0, D(Len(temp)))
  BY <1>1, <1>3, WrittenNumbers DEF OutputOK
<1>8. D(Len(temp)) <= D(WriteTook) /\ Runs(HeldBy("write"), D(Len(temp)), D(WriteTook))
  <2>1. \/ hold["write"] = NULL /\ WriteTook = Len(temp)
        \/ hold["write"] # NULL /\ hold["write"] = OutItems[Len(temp)] /\ WriteTook = Len(temp) + 1
    BY <1>1, <1>5 DEF OutputOK, HeldCount
  <2>. QED
    BY <1>2, <1>4, <1>5, <1>6, <2>1, RunsHeld
<1>9. D(WriteTook) <= D(MacGave) /\ Runs(queue["write"], D(WriteTook), D(MacGave))
  <2>1. MacGave = WriteTook + Len(queue["write"]) /\ Holds(queue["write"], OutItems, WriteTook)
    BY <1>1, <1>3, <1>6 DEF OutInOrder
  <2>. QED
    BY <1>2, <1>3, <1>4, <1>6, <2>1, RunsOfItems
<1>10. D(MacGave) <= D(MacTook) /\ Runs(HeldBy("mac"), D(MacGave), D(MacTook))
  <2>1. CASE pc["mac"] = "put"
    <3>1. /\ hold["mac"] # NULL /\ hold["mac"] = OutItems[Len(digest) - 1]
          /\ MacGave = Len(digest) - 1 /\ Len(digest) <= Total + 1 /\ Len(digest) >= 1
      BY <1>1, <2>1 DEF DigestOK, MacGave, TypeInv, HoldsTyped
    <3>2. hold["mac"] # DONE
      <4>1. Len(digest) - 1 \in 0 .. Total
        BY <1>2, <1>5, <3>1
      <4>2. OutItems[Len(digest) - 1].action # "DONE"
        BY <4>1, SealedItem
      <4>. QED
        BY <3>1, <4>2 DEF DONE, Chunk
    <3>3. MacTook = MacGave + 1 /\ hold["mac"] = OutItems[MacGave]
      BY <1>5, <3>1, <3>2 DEF MacTook
    <3>. QED
      BY <1>2, <1>4, <1>6, <3>1, <3>3, RunsHeld
  <2>2. CASE pc["mac"] # "put" /\ hold["mac"] = NULL
    <3>1. D(MacGave) = D(MacTook)
      <4>1. MacTook = Len(digest)
        BY <2>2, DoneType, GoodFacts DEF MacTook
      <4>2. pc["mac"] \in {"flush", "exit"} => Len(digest) = Total + 1
        BY <1>1 DEF DigestOK
      <4>3. MacGave = Len(digest) \/ (Len(digest) = Total + 1 /\ MacGave \in {Total + 2, Total + 3})
        BY <2>2, <4>2 DEF MacGave
      <4>. QED
        BY <1>2, <4>1, <4>3 DEF DataBefore
    <3>. QED
      BY <1>2, <1>4, <1>6, <2>2, <3>1, RunsHeld
  <2>3. CASE pc["mac"] # "put" /\ hold["mac"] = DONE
    <3>1. Len(digest) = Total + 1 /\ MacTook = Total + 2
      BY <1>1, <1>2, <2>3 DEF DigestOK, MacTook
    <3>2. MacGave \in {Total + 1, Total + 2, Total + 3}
      BY <2>3, <3>1 DEF MacGave
    <3>3. hold["mac"] # NULL /\ hold["mac"] = SealedItems[Total + 1]
      BY <1>2, <2>3, LastItems, DoneType, GoodFacts
    <3>4. D(MacGave) = D(Total + 1) /\ D(MacTook) = D(Total + 2)
      BY <1>2, <3>1, <3>2 DEF DataBefore
    <3>5. Total + 1 \in Nat /\ Total + 2 \in Nat /\ Total + 2 = Total + 1 + 1
      BY <1>2
    <3>6. D(Total + 1) <= D(Total + 2) /\ Runs(HeldBy("mac"), D(Total + 1), D(Total + 2))
      BY <1>2, <1>4, <3>3, <3>5, RunsHeld
    <3>. QED
      BY <3>4, <3>6
  <2>. QED
    BY <1>1, <2>1, <2>2, <2>3 DEF DigestOK
<1>11. D(MacTook) <= D(CryptoGave) /\ Runs(queue["mac"], D(MacTook), D(CryptoGave))
  <2>1. CryptoGave = MacTook + Len(queue["mac"]) /\ Holds(queue["mac"], SealedItems, MacTook)
    BY <1>1, <1>3, <1>6 DEF SealedInOrder
  <2>. QED
    BY <1>2, <1>3, <1>4, <1>6, <2>1, RunsOfItems
<1>12. D(CryptoGave) <= D(CryptoTook) /\ Runs(HeldBy("crypto"), D(CryptoGave), D(CryptoTook))
  <2>. DEFINE items == [k \in Nat |-> IF k <= Total THEN CipherItems[k] ELSE DONE]
  <2>1. Numbered(items, Total)
    <3>1. \A k \in Nat : items[k].id = IF k <= Total THEN k ELSE -3
      <4>1. DONE.id = -3
        BY DEF DONE, Chunk, NoId
      <4>. QED
        BY <1>2, <1>4, <4>1
    <3>. HIDE DEF items
    <3>. QED
      BY <1>2, <3>1 DEF Numbered
  <2>2. \/ hold["crypto"] = NULL /\ D(CryptoGave) = D(CryptoTook)
        \/ /\ hold["crypto"] # NULL /\ hold["crypto"] = items[CryptoGave]
           /\ CryptoTook = CryptoGave + 1
    <3>1. CASE hold["crypto"] # NULL
      <4>1. chain \in 0 .. Total /\ hold["crypto"] = CipherItems[chain]
            /\ pc["crypto"] \notin {"flush", "exit"}
        BY <1>1, <1>2, <1>3, <3>1 DEF CipherOK
      <4>2. CryptoTook = chain + 1 /\ CryptoGave = chain
        BY <3>1, <4>1 DEF CryptoTook, CryptoGave, HeldCount
      <4>. QED
        BY <1>2, <3>1, <4>1, <4>2
    <3>2. CASE hold["crypto"] = NULL
      <4>1. pc["crypto"] \in {"flush", "exit"} => chain = Total
        BY <1>1 DEF CipherOK
      <4>2. CryptoTook = CryptoGave \/ (CryptoGave = Total + 1 /\ CryptoTook = Total + 2)
        BY <1>2, <1>3, <3>2, <4>1 DEF CryptoTook, CryptoGave, HeldCount
      <4>. QED
        BY <1>2, <3>2, <4>2 DEF DataBefore
    <3>. QED
      BY <3>1, <3>2
  <2>. HIDE DEF items
  <2>. QED
    BY <1>2, <1>6, <2>1, <2>2, RunsHeld
<1>13. D(CryptoTook) <= D(ReadGave) /\ Runs(queue["crypto"], D(CryptoTook), D(ReadGave))
  <2>1. ReadGave = CryptoTook + Len(queue["crypto"]) /\ Holds(queue["crypto"], PlainItems, CryptoTook)
    BY <1>1, <1>3, <1>6 DEF PlainInOrder
  <2>. QED
    BY <1>2, <1>3, <1>4, <1>6, <2>1, RunsOfItems
<1>. DEFINE all == DataChunks(bytesRead) + 1
<1>14. D(ReadGave) <= D(all) /\ Runs(HeldBy("read"), D(ReadGave), D(all)) /\ D(all) = ChunksRead
  <2>1. all \in Nat /\ D(all) = ChunksRead
    BY <1>2 DEF ChunksRead, DataBefore
  <2>2. CASE pc["read"] = "queue"
    <3>1. /\ hold["read"] # NULL /\ hold["read"] = PlainItems[DataChunks(bytesRead)]
          /\ ReadGave = DataChunks(bytesRead)
      BY <1>1, <1>2, <2>2 DEF ReaderOK, ReadGave, HeldCount, TypeInv, HoldsTyped
    <3>. QED
      BY <1>2, <1>4, <1>6, <2>1, <3>1, RunsHeld
  <2>3. CASE pc["read"] # "queue"
    <3>1. hold["read"] = NULL
      BY <1>1, <2>3 DEF ReaderOK
    <3>2. pc["read"] = "exit" => DataChunks(bytesRead) = Total
      BY <1>1, TotalFacts DEF ReaderOK
    <3>3. ReadGave = all \/ (ReadGave = Total + 2 /\ all = Total + 1)
      BY <1>2, <3>1, <3>2 DEF ReadGave, HeldCount
    <3>4. D(ReadGave) = D(all)
      BY <1>2, <3>3 DEF DataBefore
    <3>. QED
      BY <1>2, <1>4, <1>6, <2>1, <3>1, <3>4, RunsHeld
  <2>. QED
    BY <2>2, <2>3, <2>1
<1>15. /\ D(Len(temp)) \in Nat /\ D(WriteTook) \in Nat /\ D(MacGave) \in Nat /\ D(MacTook) \in Nat
       /\ D(CryptoGave) \in Nat /\ D(CryptoTook) \in Nat /\ D(ReadGave) \in Nat /\ D(all) \in Nat
  BY <1>2, <1>5, <1>6 DEF DataBefore
<1>. DEFINE d == [i \in 0 .. 8 |-> CASE i = 0 -> 0 [] i = 1 -> D(Len(temp)) [] i = 2 -> D(WriteTook)
                                     [] i = 3 -> D(MacGave) [] i = 4 -> D(MacTook)
                                     [] i = 5 -> D(CryptoGave) [] i = 6 -> D(CryptoTook)
                                     [] i = 7 -> D(ReadGave) [] i = 8 -> D(all)]
<1>. HIDE DEF D, all
<1>16. /\ d[0] = 0 /\ d[1] = D(Len(temp)) /\ d[2] = D(WriteTook) /\ d[3] = D(MacGave)
       /\ d[4] = D(MacTook) /\ d[5] = D(CryptoGave) /\ d[6] = D(CryptoTook) /\ d[7] = D(ReadGave)
       /\ d[8] = D(all) /\ d \in [0 .. 8 -> Nat]
  BY <1>15
<1>. HIDE DEF d
<1>17. /\ d[0] <= d[1] /\ d[1] <= d[2] /\ d[2] <= d[3] /\ d[3] <= d[4]
       /\ d[4] <= d[5] /\ d[5] <= d[6] /\ d[6] <= d[7] /\ d[7] <= d[8]
  BY <1>8, <1>9, <1>10, <1>11, <1>12, <1>13, <1>14, <1>15, <1>16
<1>18. Upstream[1] = "mac" /\ Upstream[2] = "crypto"
  BY DEF Upstream
<1>19. RunsApart(d)
  BY <1>7, <1>8, <1>9, <1>10, <1>11, <1>12, <1>13, <1>14, <1>16, <1>17, <1>18, Zenon DEF RunsApart
<1>20. Runs(OnTheWay, 0, d[8])
  BY <1>3, <1>19, RunsOnTheWay
<1>. QED
  BY <1>14, <1>16, <1>20

-----------------------------------------------------------------------------
(***************************************************************************)
(* What one decryption does to its files, for every file size, chunk and   *)
(* block size, queue capacity and every damage of the file.  The           *)
(* invariant has two parts.  Outcome and Hashing hold whatever has failed: *)
(* what can be compared with the MAC, and what can replace the target.     *)
(* While the run goes on, the k-th item that enters a queue is piece k of  *)
(* the file, as the threads before that queue leave it, and each queue     *)
(* holds those put into it and not yet taken.                              *)
(***************************************************************************)
\* The file without header, padding block and MAC, and the data chunks the
\* read thread cuts it into.  Damage can make them differ from the plain file.
BodySize == file.size - 3 * Block
Cuts == DataChunks(BodySize)
CutSize(k) == IF k = HeaderId THEN HeaderSize ELSE getPadSize(PieceSize(BodySize, k))

StoredMac == IF file.damage \in {"extended", "shortened"} THEN <<>> ELSE CipherText(file.plain)

\* What the read thread puts into a queue, and what the MAC thread and the
\* crypto thread pass on of it.
StoredItems ==
  [k \in Nat |->
     IF k = 0 THEN Chunk("CHECK_HEADER", HeaderId, HeaderSeal, <<>>, HeaderSize)
     ELSE IF k <= Cuts THEN Chunk("GEN_MAC", k, DataSeal(k), <<>>, CutSize(k))
     ELSE IF k = Cuts + 1 THEN Chunk("MAC", MacId, <<>>, StoredMac, Block)
     ELSE DONE]

PassedItems ==
  [k \in Nat |-> IF k <= Cuts THEN [StoredItems[k] EXCEPT !.action = "WRITE"] ELSE DONE]

ClearItems ==
  [k \in Nat |-> IF k <= Cuts THEN Decipher(PassedItems[k], ChainOf(PassedItems[k - 1])) ELSE DONE]

\* The bytes written after k chunks, and chunk k as it is written.
SumTo(k) == IF k < Cuts THEN k * MaxChunk ELSE (Cuts - 1) * MaxChunk + CutSize(Cuts)
Written(k) == IF k = 0 THEN 0 ELSE IF SumTo(k) < file.promised THEN SumTo(k) ELSE file.promised

ClearPiece ==
  [k \in Nat |-> [Data(ClearItems[k]) EXCEPT !.size = Written(k) - Written(k - 1)]]

\* Nothing of this changes during a run.
FixedParts ==
  <<BodySize, Cuts, StoredMac, StoredItems, PassedItems, ClearItems, ClearPiece, Expected>>

\* How many items each thread has taken from one queue and put into the next.
\* The MAC thread leaves the MAC in its queue while it waits for the verdict;
\* nothing counts what the crypto thread has passed on but its other end.
CutsIn(n) ==
  IF n = 0 THEN 0
  ELSE IF n = file.size THEN Cuts + 2
  ELSE 1 + DataChunks(n - HeaderSize)

ReadCut == CutsIn(bytesRead)

ReadPut == IF pc["read"] = "exit" THEN Cuts + 3 ELSE ReadCut - HeldCount("read")

AuthTook ==
  IF pc["mac"] = "hash" THEN Len(digest) + 1
  ELSE IF pc["mac"] \in {"verdict", "flush", "exit"} THEN Cuts + 2
  ELSE Len(digest)

AuthGave ==
  IF pc["mac"] = "exit" THEN Cuts + 2
  ELSE IF pc["mac"] \in {"auth", "take", "pass"} THEN Len(digest) - HeldCount("mac")
  ELSE Len(digest)

ClearTook == IF temp = NULL THEN 0 ELSE Len(temp) + HeldCount("write")
ClearGave == ClearTook + Len(queue["write"])

DecipherTook ==
  IF pc["crypto"] \in {"flush", "exit"} THEN Cuts + 2
  ELSE IF header THEN 0
  ELSE 1 + ClearGave + HeldCount("crypto")

StoredInOrder ==
  /\ Len(queue["mac"]) = ReadPut - AuthTook
  /\ Holds(queue["mac"], StoredItems, AuthTook)

PassedInOrder ==
  /\ Len(queue["crypto"]) = AuthGave - DecipherTook
  /\ Holds(queue["crypto"], PassedItems, DecipherTook)

ClearInOrder == Holds(queue["write"], ClearItems, ClearTook + 1)

OnCut(n) ==
  \/ n \in {0, file.size, HeaderSize + BodySize}
  \/ n - HeaderSize = DataChunks(n - HeaderSize) * MaxChunk

SourceOK ==
  /\ OnCut(bytesRead)
  /\ pc["read"] \in {"flush", "exit"} => bytesRead = file.size
  /\ IF pc["read"] = "queue"
     THEN bytesRead > 0 /\ hold["read"] = StoredItems[ReadCut - 1]
     ELSE hold["read"] = NULL

HashOK ==
  /\ Len(digest) <= Cuts + 1
  /\ \A i \in 1 .. Len(digest) : digest[i] = Data(StoredItems[i - 1])
  /\ pc["mac"] = "start" => digest = <<>> /\ hold["mac"] = NULL
  /\ pc["mac"] = "hash" => Len(digest) <= Cuts /\ hold["mac"] = StoredItems[Len(digest)]
  /\ pc["mac"] \in {"auth", "take", "pass"} /\ hold["mac"] # NULL =>
       Len(digest) >= 1 /\ hold["mac"] = PassedItems[Len(digest) - 1]
  /\ pc["mac"] \in {"final", "stored", "fetch", "flush", "exit"} => hold["mac"] = NULL
  /\ pc["mac"] = "verdict" => hold["mac"] = StoredItems[Cuts + 1]
  /\ pc["mac"] \in {"final", "stored", "fetch", "verdict", "flush", "exit"} =>
       Len(digest) = Cuts + 1

\* DONE reaches the crypto thread after the verdict, and only then.
EndPassed ==
  /\ hold["crypto"] # NULL => hold["crypto"].action # "DONE"
  /\ pc["mac"] # "exit" =>
       /\ pc["crypto"] \notin {"flush", "exit"}
       /\ \A i \in 1 .. Len(queue["crypto"]) : queue["crypto"][i].action # "DONE"

\* The last block of the chunk before the next one.
LastBlock == IF even THEN chain ELSE chainOdd

DecipherOK ==
  /\ header => ClearGave = 0 /\ hold["crypto"] = NULL /\ even
  /\ pc["crypto"] \notin {"flush", "exit"} =>
       /\ ClearGave + HeldCount("crypto") <= Cuts
       /\ ~header => LastBlock = ChainOf(PassedItems[ClearGave + HeldCount("crypto")])
  /\ hold["crypto"] # NULL => worked /\ hold["crypto"] = ClearItems[ClearGave + 1]
  /\ pc["crypto"] = "flush" => ClearGave = Cuts
  /\ pc["crypto"] = "exit" => ClearGave = Cuts + 1
  /\ pc["crypto"] \in {"flush", "exit"} => hold["crypto"] = NULL /\ ~header

WrittenOK ==
  /\ temp = NULL => bytesWritten = 0
  /\ temp # NULL =>
       /\ Len(temp) <= Cuts
       /\ \A i \in 1 .. Len(temp) : temp[i] = ClearPiece[i]
       /\ bytesWritten = Written(Len(temp))
       /\ Len(temp) >= 1 => Written(Len(temp) - 1) < file.promised
  /\ IF pc["write"] = "write"
     THEN /\ hold["write"] = ClearItems[Len(temp) + 1]
          /\ Len(temp) < Cuts /\ bytesWritten < file.promised /\ valid
     ELSE hold["write"] = NULL

\* All the header promises, with the right contents if no chunk was changed.
Whole(pieces) ==
  /\ pieces # NULL
  /\ Shape(pieces) = Shape(Expected)
  /\ SameBody => pieces = Expected

\* What holds of the files and the flags whatever has failed.
Outcome ==
  /\ ~running => pc["write"] = "exit"
  /\ pc["write"] = "exit" => error # "none" \/ ~running
  /\ pc["write"] = "start" => temp = NULL
  /\ target # NULL => pc["write"] \in {"stop", "exit"} /\ Whole(target)
  /\ pc["write"] = "finish" /\ error = "none" => Whole(temp)
  /\ pc["write"] = "rename" => Whole(temp)
  /\ pc["write"] = "stop" \/ (pc["write"] = "exit" /\ error = "none") =>
       target # NULL \/ Whole(temp)
  /\ status = NULL <=> pc["main"] # "over"
  /\ status = "SUCCESS" => file.damage = "intact" /\ (target # NULL \/ Whole(temp))
  /\ pc["main"] = "over" =>
       (\A t \in Threads : pc[t] = "exit") \/ (\A t \in Threads : pc[t] = "start")

\* What holds of the MAC whatever has failed: only pieces of the file are
\* hashed, nothing before a header that passes, and the verdict is right.
Stored == {StoredItems[k] : k \in 0 .. Cuts + 2}

Hashing ==
  /\ queue["mac"] \in Seq(Stored) /\ hold["read"] \in Stored \cup {NULL}
  /\ pc["mac"] \in {"hash", "verdict"} => hold["mac"] \in Stored \cup {NULL}
  /\ macHeader <=> digest = <<>>
  /\ valid <=> digest # <<>>
  /\ valid => newFileSize = file.promised
  /\ file.damage = "header" => digest = <<>>
  /\ \A i \in 1 .. Len(digest) : digest[i].id = HeaderId => digest[i].seal = HeaderSeal
  /\ file.damage = "body" => \A i \in 1 .. Len(digest) : digest[i].id = 1 => digest[i].seal = <<Garbled>>
  /\ pc["mac"] \in {"stored", "fetch"} => hold["mac"] = NULL
  /\ pc["mac"] = "fetch" => digest # <<>> \/ (pc["read"] = "exit" /\ queue["mac"] = <<>>)
  /\ pc["mac"] = "verdict" /\ hold["mac"] # NULL => digest # <<>>
  /\ pc["mac"] \in {"flush", "exit"} /\ error = "none" => file.damage = "intact"

\* The state before the threads exist.
Untouched ==
  /\ running /\ error = "none" /\ header /\ even
  /\ queue = [q \in Queues |-> <<>>]
  /\ hold = [t \in Threads |-> NULL]
  /\ \A t \in Threads : pc[t] = "start"
  /\ bytesRead = 0 /\ bytesWritten = 0 /\ digest = <<>> /\ temp = NULL /\ target = NULL

\* While nothing can be read, because the read thread has not started or its
\* stat failed, only DONE is ever queued: the MAC thread takes it and stays.
NothingCame ==
  /\ pc["crypto"] \in {"start", "loop", "take"} /\ pc["write"] \in {"start", "loop", "take"}
  /\ pc["mac"] \in {"start", "auth", "take"}
       \/ (pc["mac"] \in {"final", "stored", "fetch"} /\ pc["read"] = "exit")
  /\ pc["read"] # "queue"
  /\ queue["crypto"] = <<>> /\ queue["write"] = <<>>
  /\ queue["mac"] = IF pc["read"] = "exit" /\ pc["mac"] \in {"start", "auth", "take"}
                    THEN <<DONE>> ELSE <<>>
  /\ hold = [t \in Threads |-> NULL]
  /\ header /\ even /\ digest = <<>>
  /\ bytesWritten = 0 /\ temp \in {NULL, <<>>}

Going == KeepGoing /\ Launched
Writing == pc["write"] \in {"start", "loop", "take", "write"}

Flowing == Going /\ origFileSize # 0
StillNothing == Going /\ origFileSize = 0 => NothingCame

DecInv ==
  /\ Outcome
  /\ Hashing
  /\ pc["main"] = "start" => Untouched
  /\ StillNothing
  /\ Flowing =>
       /\ StoredInOrder /\ SourceOK /\ HashOK /\ EndPassed
       /\ Writing => PassedInOrder /\ ClearInOrder /\ DecipherOK /\ WrittenOK

-----------------------------------------------------------------------------
(* The pieces of the file *)

LEMMA FixedPartsFacts ==
  ASSUME UNCHANGED file
  PROVE  UNCHANGED FixedParts
  BY DEF FixedParts, BodySize, Cuts, StoredMac, StoredItems, PassedItems, ClearItems, ClearPiece,
         Expected, Written, SumTo, CutSize, HeaderSeal, DataSeal

\* Padding never goes past the next multiple of the block size.
LEMMA PadUpTo ==
  ASSUME NEW n \in Nat, NEW q \in Nat, n <= q * Block
  PROVE  getPadSize(n) <= q * Block
<1>. DEFINE a == (n + Block - 1) \div Block
<1>1. Block \in Nat \ {0} /\ n + Block - 1 \in Nat
  BY PipelineAssumption
<1>2. a \in Nat /\ a * Block <= n + Block - 1
  BY <1>1, DivFacts
<1>3. getPadSize(n) = a * Block
  BY DEF getPadSize
<1>. HIDE DEF a
<1>4. CASE a >= q + 1
  <2>1. a * Block >= (q + 1) * Block
    BY <1>1, <1>2, <1>4
  <2>2. (q + 1) * Block = q * Block + Block
    BY <1>1
  <2>. QED
    BY <1>1, <1>2, <2>1, <2>2
<1>5. CASE a <= q
  <2>1. a * Block <= q * Block
    BY <1>1, <1>2, <1>5
  <2>. QED
    BY <1>3, <2>1
<1>. QED
  BY <1>2, <1>4, <1>5

\* A chunk holds whole blocks.
LEMMA ChunkBlocks ==
  \E b \in Nat : MaxChunk = b * Block
<1>1. MaxChunk \in Nat /\ Block \in Nat \ {0} /\ MaxChunk % Block = 0
  BY PipelineAssumption
<1>2. MaxChunk = (MaxChunk \div Block) * Block /\ MaxChunk \div Block \in Nat
  BY <1>1, Z3
<1>. QED
  BY <1>2

LEMMA PadInChunks ==
  ASSUME NEW n \in Nat, NEW k \in Nat, n <= k * MaxChunk
  PROVE  getPadSize(n) <= k * MaxChunk
<1>1. PICK b \in Nat : MaxChunk = b * Block
  BY ChunkBlocks
<1>2. k * b \in Nat /\ k * MaxChunk = (k * b) * Block
  BY <1>1, PipelineAssumption
<1>. QED
  BY <1>2, PadUpTo

\* The body and what it is cut into.
LEMMA CutsFacts ==
  ASSUME TypeInv, ~Encrypting, ~TooSmall
  PROVE  /\ file.plain \in Nat /\ file.promised \in Nat /\ file.size \in Nat /\ MaxChunk \in Nat \ {0} /\ Block \in Nat \ {0}
         /\ BodySize \in Nat \ {0} /\ file.size = HeaderSize + BodySize + Block
         /\ HeaderSize = 2 * Block /\ HeaderSize \in Nat \ {0}
         /\ Cuts \in Nat \ {0} /\ BodySize <= Cuts * MaxChunk /\ (Cuts - 1) * MaxChunk < BodySize
         /\ file.damage \in {"intact", "header", "iv", "body", "extended", "shortened"}
         /\ SameBody => Cuts = DataChunks(file.plain)
         /\ file.damage = "intact" => file.promised <= BodySize
         /\ file.damage = "body" => file.plain > 0
<1>1. /\ file.plain \in Nat /\ file.promised \in Nat /\ file.size \in Nat /\ MaxChunk \in Nat \ {0} /\ Block \in Nat \ {0}
      /\ file.damage \in {"intact", "header", "iv", "body", "extended", "shortened"}
      /\ file.damage # "iv" => file.promised = file.plain
      /\ file.damage \in {"intact", "iv", "body"} => file.size = HeaderSize + getPadSize(file.plain) + Block
      /\ file.size > 3 * Block
  <2>1. file \in Files
    BY DEF TypeInv, FlagsTyped
  <2>2. /\ file.plain \in Nat /\ file.promised \in Nat /\ file.size \in Nat /\ getPadSize(file.plain) \in Nat
        /\ file.damage \in {"intact", "header", "iv", "body", "extended", "shortened"}
        /\ file.damage # "iv" => file.promised = file.plain
        /\ file.size = EncryptedSize(file.plain)
                          + (CASE file.damage = "extended" -> MaxChunk
                               [] file.damage = "shortened" -> -Block
                               [] OTHER -> 0)
    BY <2>1, FileFacts, PadFacts
  <2>3. file.damage \in {"intact", "iv", "body"} => file.size = EncryptedSize(file.plain) + 0
    BY <2>2
  <2>. QED
    BY <2>2, <2>3, PipelineAssumption DEF TooSmall, EncryptedSize, HeaderSize
<1>2. /\ BodySize \in Nat \ {0} /\ file.size = HeaderSize + BodySize + Block
      /\ HeaderSize = 2 * Block /\ HeaderSize \in Nat \ {0}
  BY <1>1 DEF BodySize, HeaderSize
<1>3. Cuts \in Nat /\ BodySize <= Cuts * MaxChunk /\ Cuts * MaxChunk < BodySize + MaxChunk
  BY <1>2, DataChunksFacts DEF Cuts
<1>4. Cuts # 0
  <2>1. 0 * MaxChunk = 0
    BY <1>1
  <2>. QED
    BY <1>2, <1>3, <2>1
<1>5. (Cuts - 1) * MaxChunk < BodySize
  <2>1. (Cuts - 1) * MaxChunk = Cuts * MaxChunk - MaxChunk
    BY <1>1, <1>3
  <2>. QED
    BY <1>1, <1>2, <1>3, <2>1
<1>6. file.damage \in {"intact", "iv", "body"} => BodySize = getPadSize(file.plain)
  <2>1. getPadSize(file.plain) \in Nat
    BY <1>1, PadFacts
  <2>. QED
    BY <1>1, <1>2, <2>1
<1>7. ASSUME SameBody PROVE file.plain <= BodySize /\ Cuts = DataChunks(file.plain)
  <2>1. BodySize = getPadSize(file.plain) /\ file.plain <= BodySize
    BY <1>1, <1>6, <1>7, PadFacts DEF SameBody
  <2>. DEFINE d == DataChunks(file.plain)
  <2>2. d \in Nat /\ file.plain <= d * MaxChunk /\ d * MaxChunk < file.plain + MaxChunk
    BY <1>1, DataChunksFacts
  <2>3. BodySize <= d * MaxChunk
    BY <1>1, <2>1, <2>2, PadInChunks
  <2>4. d * MaxChunk < BodySize + MaxChunk
    BY <1>1, <1>2, <2>1, <2>2
  <2>. HIDE DEF d
  <2>5. Cuts = d
    BY <1>2, <2>2, <2>3, <2>4, DataChunksUnique DEF Cuts
  <2>. QED
    BY <2>1, <2>5 DEF d
<1>8. file.damage = "body" => file.plain > 0
  <2>1. getPadSize(0) <= 0 * Block
    BY <1>1, PadUpTo
  <2>. QED
    BY <1>1, <1>2, <1>6, <2>1
<1>. QED
  BY <1>1, <1>2, <1>3, <1>4, <1>5, <1>7, <1>8 DEF SameBody

\* The sizes of the chunks: full ones and a last one.
LEMMA CutSizes ==
  ASSUME TypeInv, ~Encrypting, ~TooSmall
  PROVE  /\ \A k \in 1 .. Cuts - 1 : CutSize(k) = MaxChunk
         /\ CutSize(Cuts) \in 1 .. MaxChunk
         /\ (Cuts - 1) * MaxChunk + CutSize(Cuts) >= BodySize
<1>1. /\ MaxChunk \in Nat \ {0} /\ BodySize \in Nat \ {0} /\ Cuts \in Nat \ {0}
      /\ BodySize <= Cuts * MaxChunk /\ (Cuts - 1) * MaxChunk < BodySize
  BY CutsFacts
<1>2. getPadSize(MaxChunk) = MaxChunk
  <2>1. MaxChunk <= 1 * MaxChunk /\ 1 * MaxChunk = MaxChunk
    BY <1>1
  <2>2. getPadSize(MaxChunk) <= MaxChunk
    BY <1>1, <2>1, PadInChunks
  <2>. QED
    BY <1>1, <2>2, PadFacts
<1>3. ASSUME NEW k \in 1 .. Cuts - 1 PROVE CutSize(k) = MaxChunk
  <2>1. k * MaxChunk <= (Cuts - 1) * MaxChunk
    BY <1>1
  <2>2. k * MaxChunk <= BodySize /\ k # HeaderId
    BY <1>1, <2>1 DEF HeaderId
  <2>. QED
    BY <1>2, <2>2 DEF CutSize, PieceSize
<1>. DEFINE last == PieceSize(BodySize, Cuts)
<1>4. last \in 1 .. MaxChunk /\ (Cuts - 1) * MaxChunk + last = BodySize
  <2>1. Cuts * MaxChunk = (Cuts - 1) * MaxChunk + MaxChunk
    BY <1>1
  <2>. QED
    BY <1>1, <2>1 DEF PieceSize
<1>5. CutSize(Cuts) = getPadSize(last)
  BY <1>1 DEF CutSize, HeaderId
<1>. HIDE DEF last
<1>6. getPadSize(last) \in 1 .. MaxChunk /\ getPadSize(last) >= last
  <2>1. last <= 1 * MaxChunk
    BY <1>1, <1>4
  <2>2. getPadSize(last) <= MaxChunk
    BY <1>1, <1>4, <2>1, PadInChunks
  <2>. QED
    BY <1>1, <1>4, <2>2, PadFacts
<1>7. (Cuts - 1) * MaxChunk + CutSize(Cuts) >= BodySize
  BY <1>1, <1>4, <1>5, <1>6
<1>. QED
  BY <1>3, <1>5, <1>6, <1>7

-----------------------------------------------------------------------------
(* The items *)

\* Piece k of the file, and what the MAC thread passes on of it.
LEMMA StoredItem ==
  ASSUME TypeInv, ~Encrypting, ~TooSmall, NEW k \in 0 .. Cuts
  PROVE  /\ StoredItems[k].action \notin {"MAC", "DONE"}
         /\ StoredItems[k].id = k
         /\ StoredItems[k].seal = IF k = 0 THEN HeaderSeal ELSE DataSeal(k)
         /\ PassedItems[k] = [StoredItems[k] EXCEPT !.action = "WRITE"]
         /\ PassedItems[k].action = "WRITE" /\ PassedItems[k].id = k
         /\ PassedItems[k].seal = StoredItems[k].seal
         /\ PassedItems[k].digest = <<>>
         /\ PassedItems[k].size = CutSize(k)
<1>. DEFINE a == IF k = 0 THEN "CHECK_HEADER" ELSE "GEN_MAC"
            seal == IF k = 0 THEN HeaderSeal ELSE DataSeal(k)
            size == CutSize(k)
<1>1. k \in Nat /\ k <= Cuts
  BY CutsFacts
<1>2. StoredItems[k] = Chunk(a, k, seal, <<>>, size)
  BY <1>1 DEF StoredItems, CutSize, HeaderId
<1>3. PassedItems[k] = [StoredItems[k] EXCEPT !.action = "WRITE"]
  BY <1>1 DEF PassedItems
<1>4. a \notin {"MAC", "DONE"}
  OBVIOUS
<1>. HIDE DEF a, seal, size
<1>5. /\ Chunk(a, k, seal, <<>>, size).action = a
      /\ Chunk(a, k, seal, <<>>, size).id = k
      /\ Chunk(a, k, seal, <<>>, size).seal = seal
  BY DEF Chunk
<1>6. [Chunk(a, k, seal, <<>>, size) EXCEPT !.action = "WRITE"] = Chunk("WRITE", k, seal, <<>>, size)
  BY DEF Chunk
<1>7. /\ Chunk("WRITE", k, seal, <<>>, size).action = "WRITE"
      /\ Chunk("WRITE", k, seal, <<>>, size).id = k
      /\ Chunk("WRITE", k, seal, <<>>, size).seal = seal
      /\ Chunk("WRITE", k, seal, <<>>, size).digest = <<>>
      /\ Chunk("WRITE", k, seal, <<>>, size).size = size
  BY DEF Chunk
<1>. QED
  BY <1>2, <1>3, <1>4, <1>5, <1>6, <1>7 DEF seal, size

\* The MAC, and what follows it.
LEMMA EndItems ==
  ASSUME TypeInv, ~Encrypting, ~TooSmall
  PROVE  /\ StoredItems[Cuts + 1] = Chunk("MAC", MacId, <<>>, StoredMac, Block)
         /\ StoredItems[Cuts + 1].action = "MAC" /\ StoredItems[Cuts + 1].seal = <<>>
         /\ StoredItems[Cuts + 1].id = MacId /\ StoredItems[Cuts + 1].digest = StoredMac
         /\ StoredItems[Cuts + 2] = DONE
         /\ \A k \in Nat : k > Cuts => PassedItems[k] = DONE /\ ClearItems[k] = DONE
<1>1. Cuts \in Nat
  BY CutsFacts
<1>2. StoredItems[Cuts + 1] = Chunk("MAC", MacId, <<>>, StoredMac, Block)
  BY <1>1 DEF StoredItems
<1>3. StoredItems[Cuts + 2] = DONE
  BY <1>1 DEF StoredItems
<1>4. \A k \in Nat : k > Cuts => PassedItems[k] = DONE /\ ClearItems[k] = DONE
  BY <1>1 DEF PassedItems, ClearItems
<1>. QED
  BY <1>2, <1>3, <1>4 DEF Chunk

\* Deciphering takes the seal off every piece whose chunks are as they were.
LEMMA ClearItem ==
  ASSUME TypeInv, ~Encrypting, ~TooSmall, NEW k \in 1 .. Cuts
  PROVE  /\ ClearItems[k] = Decipher(PassedItems[k], ChainOf(PassedItems[k - 1]))
         /\ ClearItems[k].action = "WRITE" /\ ClearItems[k].id = k
         /\ ClearItems[k].size = CutSize(k) /\ ClearItems[k].digest = <<>>
         /\ SameBody => ClearItems[k].seal = <<>>
<1>1. k \in 0 .. Cuts /\ k - 1 \in 0 .. Cuts /\ k \in Nat /\ k <= Cuts /\ k # 0
  BY CutsFacts
<1>2. ClearItems[k] = Decipher(PassedItems[k], ChainOf(PassedItems[k - 1]))
  BY <1>1 DEF ClearItems
<1>. DEFINE c == PassedItems[k]
            x == ChainOf(PassedItems[k - 1])
<1>3. /\ c.action = "WRITE" /\ c.id = k /\ c.digest = <<>> /\ c.size = CutSize(k)
      /\ c = [StoredItems[k] EXCEPT !.action = "WRITE"]
  BY <1>1, StoredItem
<1>4. c = Chunk("WRITE", k, c.seal, <<>>, CutSize(k))
  <2>1. StoredItems[k] = Chunk("GEN_MAC", k, DataSeal(k), <<>>, CutSize(k))
    BY <1>1 DEF StoredItems
  <2>2. [Chunk("GEN_MAC", k, DataSeal(k), <<>>, CutSize(k)) EXCEPT !.action = "WRITE"]
          = Chunk("WRITE", k, DataSeal(k), <<>>, CutSize(k))
    BY DEF Chunk
  <2>3. Chunk("WRITE", k, DataSeal(k), <<>>, CutSize(k)).seal = DataSeal(k)
    BY DEF Chunk
  <2>. QED
    BY <1>3, <2>1, <2>2, <2>3
<1>. DEFINE seal == IF c.seal = <<x>> THEN <<>> ELSE <<Garbled>>
<1>5. Decipher(c, x) = [c EXCEPT !.seal = seal]
  BY DEF Decipher
<1>6. SameBody => c.seal = <<x>>
  <2>. SUFFICES ASSUME SameBody PROVE c.seal = <<x>>
    OBVIOUS
  <2>1. k <= DataChunks(file.plain) /\ k - 1 <= DataChunks(file.plain) /\ DataChunks(file.plain) \in Nat
    BY <1>1, CutsFacts, DataChunksFacts
  <2>2. c.seal = <<k - 1>>
    <3>1. c.seal = DataSeal(k)
      BY <1>1, StoredItem
    <3>. QED
      BY <1>1, <2>1, <3>1 DEF DataSeal, SameBody
  <2>3. PassedItems[k - 1].seal \in {<<k - 1 - 1>>, <<OtherIV>>} /\ PassedItems[k - 1].id = k - 1
    <3>. DEFINE j == k - 1
    <3>1. /\ PassedItems[j].id = j /\ PassedItems[j].seal = StoredItems[j].seal
          /\ StoredItems[j].seal = IF j = 0 THEN HeaderSeal ELSE DataSeal(j)
      BY <1>1, StoredItem
    <3>2. DataSeal(j) = <<j - 1>>
      BY <1>1, <2>1 DEF DataSeal, SameBody
    <3>3. HeaderSeal \in {<<0 - 1>>, <<OtherIV>>}
      BY DEF HeaderSeal, IV, SameBody
    <3>. HIDE DEF j
    <3>4. PassedItems[j].seal \in {<<j - 1>>, <<OtherIV>>} /\ PassedItems[j].id = j
      BY <3>1, <3>2, <3>3
    <3>. QED
      BY <3>4 DEF j
  <2>4. x = k - 1
    BY <2>3 DEF ChainOf
  <2>. QED
    BY <2>2, <2>4
<1>. HIDE DEF seal, x
<1>7. [Chunk("WRITE", k, c.seal, <<>>, CutSize(k)) EXCEPT !.seal = seal]
        = Chunk("WRITE", k, seal, <<>>, CutSize(k))
  BY DEF Chunk
<1>8. /\ Chunk("WRITE", k, seal, <<>>, CutSize(k)).action = "WRITE"
      /\ Chunk("WRITE", k, seal, <<>>, CutSize(k)).id = k
      /\ Chunk("WRITE", k, seal, <<>>, CutSize(k)).seal = seal
      /\ Chunk("WRITE", k, seal, <<>>, CutSize(k)).digest = <<>>
      /\ Chunk("WRITE", k, seal, <<>>, CutSize(k)).size = CutSize(k)
  BY DEF Chunk
<1>9. ClearItems[k] = Chunk("WRITE", k, seal, <<>>, CutSize(k))
  BY <1>2, <1>4, <1>5, <1>7 DEF x
<1>10. SameBody => seal = <<>>
  BY <1>6 DEF seal
<1>. QED
  BY <1>2, <1>8, <1>9, <1>10

\* Only a header passes checkHeader, and only one that deciphers to the right
\* words.
LEMMA HeaderPasses ==
  ASSUME TypeInv, ~Encrypting, ~TooSmall, NEW c \in Stored, checkHeader(c)
  PROVE  c = StoredItems[0] /\ file.damage # "header"
<1>1. PICK k \in 0 .. Cuts + 2 : c = StoredItems[k]
  BY DEF Stored
<1>2. c.seal \in {<<-1>>, <<-5>>} /\ Cuts \in Nat
  BY CutsFacts DEF checkHeader, IV, OtherIV
<1>3. CASE k = 0
  <2>0. 0 \in 0 .. Cuts
    BY <1>2
  <2>1. c.seal = HeaderSeal
    BY <1>1, <1>3, <2>0, StoredItem
  <2>2. <<-1>> # <<-4>> /\ <<-5>> # <<-4>>
    OBVIOUS
  <2>. QED
    BY <1>1, <1>2, <1>3, <2>1, <2>2 DEF HeaderSeal, Garbled
<1>4. CASE k \in 1 .. Cuts
  <2>0. k \in 0 .. Cuts /\ k # 0
    BY <1>2, <1>4
  <2>1. c.seal = DataSeal(k)
    BY <1>1, <2>0, StoredItem
  <2>2. c.seal \in {<<-4>>, <<k - 1>>}
    BY <2>1 DEF DataSeal, Garbled
  <2>3. /\ <<-1>> # <<-4>> /\ <<-1>> # <<k - 1>>
        /\ <<-5>> # <<-4>> /\ <<-5>> # <<k - 1>>
    BY <1>4
  <2>. QED
    BY <1>2, <2>2, <2>3
<1>5. CASE k = Cuts + 1 \/ k = Cuts + 2
  <2>1. c.seal = <<>>
    BY <1>1, <1>5, EndItems DEF DONE, Chunk
  <2>2. <<-1>> # <<>> /\ <<-5>> # <<>>
    OBVIOUS
  <2>. QED
    BY <1>2, <2>1, <2>2
<1>. QED
  BY <1>1, <1>2, <1>3, <1>4, <1>5

\* Only the MAC says it is one.
LEMMA OnlyMac ==
  ASSUME TypeInv, ~Encrypting, ~TooSmall, NEW c \in Stored, c.action = "MAC"
  PROVE  c = StoredItems[Cuts + 1] /\ c.digest = StoredMac
<1>1. PICK k \in 0 .. Cuts + 2 : c = StoredItems[k]
  BY DEF Stored
<1>2. Cuts \in Nat
  BY CutsFacts
<1>3. ~(k \in 0 .. Cuts)
  BY <1>1, StoredItem
<1>4. k # Cuts + 2
  BY <1>1, EndItems DEF DONE, Chunk
<1>. QED
  BY <1>1, <1>2, <1>3, <1>4, EndItems

\* Chunk 1 of a file whose body was changed is not what was hashed.
LEMMA OnlyFirst ==
  ASSUME TypeInv, ~Encrypting, ~TooSmall, NEW c \in Stored, c.id = 1, file.damage = "body"
  PROVE  c.seal = <<Garbled>>
<1>1. PICK k \in 0 .. Cuts + 2 : c = StoredItems[k]
  BY DEF Stored
<1>2. Cuts \in Nat
  BY CutsFacts
<1>3. CASE k \in 0 .. Cuts
  <2>1. k = 1
    BY <1>1, <1>3, StoredItem
  <2>2. c.seal = IF k = 0 THEN HeaderSeal ELSE DataSeal(k)
    BY <1>1, <1>3, StoredItem
  <2>. QED
    BY <2>1, <2>2 DEF DataSeal
<1>4. CASE k = Cuts + 1 \/ k = Cuts + 2
  BY <1>1, <1>4, EndItems DEF DONE, Chunk, MacId, NoId
<1>. QED
  BY <1>1, <1>2, <1>3, <1>4

\* What has the header's number is the header.
LEMMA OnlyHeader ==
  ASSUME TypeInv, ~Encrypting, ~TooSmall, NEW c \in Stored, c.id = HeaderId
  PROVE  c.seal = HeaderSeal
<1>1. PICK k \in 0 .. Cuts + 2 : c = StoredItems[k]
  BY DEF Stored
<1>2. Cuts \in Nat
  BY CutsFacts
<1>3. CASE k \in 0 .. Cuts
  <2>1. k = 0
    BY <1>1, <1>3, StoredItem DEF HeaderId
  <2>2. c.seal = IF k = 0 THEN HeaderSeal ELSE DataSeal(k)
    BY <1>1, <1>3, StoredItem
  <2>. QED
    BY <2>1, <2>2
<1>4. CASE k = Cuts + 1 \/ k = Cuts + 2
  BY <1>1, <1>4, EndItems DEF DONE, Chunk, MacId, NoId, HeaderId
<1>. QED
  BY <1>1, <1>2, <1>3, <1>4

\* What was hashed is what the file's MAC was made of only if the file is as
\* it was.
LEMMA MatchIsIntact ==
  ASSUME TypeInv, ~Encrypting, ~TooSmall, Hashing, digest = StoredMac, digest # <<>>
  PROVE  file.damage = "intact"
<1>1. file.damage \in {"intact", "header", "iv", "body", "extended", "shortened"} /\ file.plain \in Nat
  BY CutsFacts
<1>2. file.damage \notin {"extended", "shortened", "header"}
  BY DEF StoredMac, Hashing
<1>4. file.damage # "iv"
  <2>. SUFFICES ASSUME file.damage = "iv" PROVE FALSE
    OBVIOUS
  <2>. DEFINE n == file.plain
  <2>1. digest = CipherText(n) /\ DataChunks(n) \in Nat
    BY <1>1, DataChunksFacts DEF StoredMac
  <2>2. 1 \in 1 .. Len(digest)
    <3>1. Len(digest) = DataChunks(n) + 1
      BY <1>1, <2>1, CipherTextType
    <3>. QED
      BY <2>1, <3>1
  <2>3. digest[1] = CipherPiece(n, 0)
    BY <2>1 DEF CipherText
  <2>4. CipherPiece(n, 0) = Data(Chunk("data", 0, <<0 - 1>>, <<>>, HeaderSize))
    BY DEF CipherPiece, HeaderId
  <2>5. /\ Data(Chunk("data", 0, <<0 - 1>>, <<>>, HeaderSize)).id = HeaderId
        /\ Data(Chunk("data", 0, <<0 - 1>>, <<>>, HeaderSize)).seal = <<0 - 1>>
    BY DEF Data, Chunk, HeaderId
  <2>6. digest[1].seal = <<OtherIV>>
    BY <2>2, <2>3, <2>4, <2>5 DEF Hashing, HeaderSeal
  <2>7. <<0 - 1>> # <<OtherIV>>
    BY DEF OtherIV
  <2>. QED
    BY <2>3, <2>4, <2>5, <2>6, <2>7
<1>3. file.damage # "body"
  <2>. SUFFICES ASSUME file.damage = "body" PROVE FALSE
    OBVIOUS
  <2>1. digest = CipherText(file.plain)
    BY DEF StoredMac
  <2>. DEFINE n == file.plain
              size == getPadSize(PieceSize(n, 1))
  <2>2. DataChunks(n) >= 1 /\ DataChunks(n) \in Nat
    <3>1. n \in Nat /\ n > 0 /\ n <= DataChunks(n) * MaxChunk /\ DataChunks(n) \in Nat
      BY <1>1, CutsFacts, DataChunksFacts
    <3>2. 0 * MaxChunk = 0
      BY PipelineAssumption
    <3>3. DataChunks(n) # 0
      BY <3>1, <3>2
    <3>. QED
      BY <3>1, <3>3
  <2>3. 2 \in 1 .. Len(digest)
    <3>1. Len(digest) = DataChunks(n) + 1
      BY <1>1, <2>1, CipherTextType
    <3>. QED
      BY <2>2, <3>1
  <2>4. digest[2] = CipherPiece(n, 1)
    BY <2>1, <2>2 DEF CipherText
  <2>5. CipherPiece(n, 1) = Data(Chunk("data", 1, <<1 - 1>>, <<>>, size))
    BY DEF CipherPiece, HeaderId
  <2>. HIDE DEF size
  <2>6. /\ Data(Chunk("data", 1, <<1 - 1>>, <<>>, size)).id = 1
        /\ Data(Chunk("data", 1, <<1 - 1>>, <<>>, size)).seal = <<1 - 1>>
    BY DEF Data, Chunk
  <2>7. digest[2].seal = <<Garbled>>
    BY <2>3, <2>4, <2>5, <2>6 DEF Hashing
  <2>8. <<1 - 1>> # <<Garbled>>
    BY DEF Garbled
  <2>. QED
    BY <2>4, <2>5, <2>6, <2>7, <2>8
<1>. QED
  BY <1>1, <1>2, <1>3, <1>4

-----------------------------------------------------------------------------
(* Reading and writing *)

\* The read thread never counts more than the file has.
LEMMA ReadCutRange ==
  ASSUME TypeInv, ~Encrypting, ~TooSmall
  PROVE  ReadCut \in 0 .. Cuts + 2
<1>1. /\ bytesRead \in Nat /\ file.size \in Nat /\ Cuts \in Nat \ {0} /\ BodySize \in Nat
      /\ file.size = HeaderSize + BodySize + Block /\ HeaderSize \in Nat /\ Block \in Nat \ {0}
      /\ MaxChunk \in Nat \ {0} /\ BodySize <= Cuts * MaxChunk
      /\ bytesRead = 0 \/ bytesRead = file.size \/ (bytesRead >= HeaderSize /\ bytesRead + Block <= file.size)
  BY CutsFacts DEF TypeInv, ReadTyped
<1>2. CASE bytesRead = 0 \/ bytesRead = file.size
  BY <1>1, <1>2 DEF ReadCut, CutsIn
<1>3. CASE bytesRead # 0 /\ bytesRead # file.size
  <2>. DEFINE p == bytesRead - HeaderSize
              d == DataChunks(p)
  <2>1. p \in Nat /\ p <= BodySize
    BY <1>1, <1>3
  <2>2. d \in Nat /\ d * MaxChunk < p + MaxChunk
    BY <2>1, DataChunksFacts
  <2>3. ReadCut = 1 + d
    BY <1>3 DEF ReadCut, CutsIn
  <2>. HIDE DEF p, d
  <2>4. d * MaxChunk < Cuts * MaxChunk + MaxChunk
    BY <1>1, <2>1, <2>2
  <2>5. d <= Cuts
    BY <1>1, <2>2, <2>4, MulLess
  <2>. QED
    BY <1>1, <2>2, <2>3, <2>5
<1>. QED
  BY <1>2, <1>3

\* The chunk the read thread cuts off is the next piece of the file.
LEMMA ReadNextCut ==
  ASSUME TypeInv, ~Encrypting, ~TooSmall, OnCut(bytesRead), bytesRead < origFileSize
  PROVE  LET next == bytesRead + CipherChunk.size
         IN  /\ CipherChunk.chunk = StoredItems[ReadCut]
             /\ CutsIn(next) = ReadCut + 1
             /\ OnCut(next) /\ next > 0
             /\ ReadCut \in 0 .. Cuts + 1
<1>1. /\ bytesRead \in Nat /\ file.size \in Nat /\ Cuts \in Nat \ {0} /\ BodySize \in Nat \ {0}
      /\ file.size = HeaderSize + BodySize + Block /\ HeaderSize \in Nat \ {0} /\ Block \in Nat \ {0}
      /\ MaxChunk \in Nat \ {0} /\ BodySize <= Cuts * MaxChunk /\ (Cuts - 1) * MaxChunk < BodySize
      /\ bytesRead = 0 \/ (bytesRead >= HeaderSize /\ bytesRead + Block <= file.size)
      /\ origFileSize = file.size
  BY CutsFacts DEF TypeInv, ReadTyped
<1>2. Rest = HeaderSize + BodySize - bytesRead
  BY <1>1 DEF Rest
<1>. DEFINE size == IF bytesRead = 0 THEN HeaderSize
                    ELSE IF Rest >= MaxChunk THEN MaxChunk
                    ELSE IF Rest > 0 THEN Rest
                    ELSE Block
<1>3. CipherChunk.size = size
  BY DEF CipherChunk
<1>4. CASE bytesRead = 0
  <2>1. size = HeaderSize
    BY <1>4
  <2>2. DataChunks(0) = 0 /\ 0 * MaxChunk = 0
    BY <1>1, DataChunksUnique
  <2>3. CipherChunk.chunk = StoredItems[0] /\ ReadCut = 0
    BY <1>1, <1>4 DEF CipherChunk, StoredItems, ReadCut, CutsIn
  <2>4. HeaderSize - HeaderSize = 0 /\ 0 + HeaderSize = HeaderSize /\ HeaderSize # 0 /\ HeaderSize # file.size
    BY <1>1
  <2>5. CutsIn(HeaderSize) = 1 /\ OnCut(HeaderSize)
    BY <1>1, <2>2, <2>4 DEF CutsIn, OnCut
  <2>. QED
    BY <1>1, <1>3, <1>4, <2>1, <2>3, <2>4, <2>5
<1>5. CASE bytesRead # 0 /\ Rest > 0
  <2>. DEFINE p == bytesRead - HeaderSize
              r == DataChunks(p)
  <2>1. p \in Nat /\ Rest = BodySize - p /\ Rest \in Nat
    BY <1>1, <1>2, <1>5
  <2>2. p = r * MaxChunk
    BY <1>1, <1>2, <1>5 DEF OnCut
  <2>3. r \in Nat
    BY <2>1, DataChunksFacts
  <2>4. ReadCut = 1 + r
    BY <1>1, <1>5 DEF ReadCut, CutsIn
  <2>5. bytesRead = HeaderSize + p
    BY <1>1
  <2>6. size = IF Rest >= MaxChunk THEN MaxChunk ELSE Rest
    BY <1>5
  <2>. HIDE DEF r
  <2>7. (r + 1) * MaxChunk = p + MaxChunk
    BY <1>1, <2>2, <2>3
  <2>. HIDE DEF p
  <2>8. size \in 1 .. MaxChunk /\ p + size \in Nat /\ p + size <= BodySize
        /\ (size = MaxChunk \/ p + size = BodySize)
    BY <1>1, <1>5, <2>1, <2>6
  <2>9. DataChunks(p + size) = r + 1
    <3>1. p + size <= (r + 1) * MaxChunk /\ (r + 1) * MaxChunk < p + size + MaxChunk
      BY <1>1, <2>1, <2>7, <2>8
    <3>2. r + 1 \in Int
      BY <2>3
    <3>. HIDE DEF size
    <3>. QED
      BY <2>8, <3>1, <3>2, DataChunksUnique
  <2>10. r + 1 <= Cuts
    <3>1. (r + 1) * MaxChunk < Cuts * MaxChunk + MaxChunk
      BY <1>1, <2>1, <2>7, <2>8
    <3>. QED
      BY <1>1, <2>3, <3>1, MulLess
  <2>11. p \div MaxChunk = r
    <3>1. /\ p \div MaxChunk \in Nat
          /\ (p \div MaxChunk) * MaxChunk <= p
          /\ p < (p \div MaxChunk) * MaxChunk + MaxChunk
      BY <1>1, <2>1, DivFacts
    <3>2. /\ (p \div MaxChunk) * MaxChunk < r * MaxChunk + MaxChunk
          /\ r * MaxChunk < (p \div MaxChunk) * MaxChunk + MaxChunk
      BY <1>1, <2>1, <2>2, <3>1
    <3>. QED
      BY <2>3, <3>1, <3>2, MulLess
  <2>12. PieceSize(BodySize, r + 1) = size
    <3>1. (r + 1) * MaxChunk <= BodySize => size = MaxChunk
      BY <1>1, <2>1, <2>6, <2>7
    <3>2. (r + 1 - 1) * MaxChunk = p
      BY <1>1, <2>2, <2>3
    <3>3. ~((r + 1) * MaxChunk <= BodySize) => size = BodySize - p
      BY <1>1, <2>1, <2>6, <2>7
    <3>. HIDE DEF size
    <3>. QED
      BY <1>1, <2>3, <3>1, <3>2, <3>3 DEF PieceSize
  <2>13. CutSize(r + 1) = getPadSize(size)
    BY <2>3, <2>12 DEF CutSize, HeaderId
  <2>14. CipherChunk.chunk = Chunk("GEN_MAC", r + 1, DataSeal(r + 1), <<>>, getPadSize(size))
    BY <1>5, <2>11 DEF CipherChunk, p
  <2>15. StoredItems[r + 1] = Chunk("GEN_MAC", r + 1, DataSeal(r + 1), <<>>, CutSize(r + 1))
    BY <2>3, <2>10 DEF StoredItems
  <2>. HIDE DEF size
  <2>16. /\ (bytesRead + size) - HeaderSize = p + size /\ bytesRead + size # 0
         /\ bytesRead + size # file.size /\ bytesRead + size > 0
    BY <1>1, <2>1, <2>5, <2>8
  <2>. DEFINE next == bytesRead + size
  <2>17. /\ next - HeaderSize = p + size /\ next # 0 /\ next # file.size
         /\ DataChunks(next - HeaderSize) = r + 1
    <3>1. next - HeaderSize = p + size
      BY <2>16
    <3>2. DataChunks(next - HeaderSize) = DataChunks(p + size)
      BY ONLY <3>1, Zenon
    <3>. QED
      BY <2>9, <2>16, <3>1, <3>2
  <2>20. CutsIn(next) = 1 + (r + 1)
    <3>. HIDE DEF next
    <3>. QED
      BY <2>17 DEF CutsIn
  <2>18. OnCut(bytesRead + size)
    <3>1. CASE p + size = BodySize
      <4>1. bytesRead + size = HeaderSize + BodySize
        BY <1>1, <2>1, <2>5, <2>8, <3>1
      <4>. QED
        BY <4>1 DEF OnCut
    <3>2. CASE size = MaxChunk
      <4>1. next - HeaderSize = (r + 1) * MaxChunk
        BY <2>7, <2>17, <3>2
      <4>. HIDE DEF next
      <4>2. OnCut(next)
        BY <2>17, <4>1 DEF OnCut
      <4>. QED
        BY <4>2 DEF next
    <3>. QED
      BY <2>8, <3>1, <3>2
  <2>19. 1 + r = r + 1 /\ 1 + (r + 1) = r + 1 + 1 /\ r + 1 \in 0 .. Cuts + 1
    BY <1>1, <2>3, <2>10
  <2>. QED
    BY <1>3, <2>4, <2>13, <2>14, <2>15, <2>16, <2>18, <2>19, <2>20
<1>6. CASE bytesRead # 0 /\ ~(Rest > 0)
  <2>1. bytesRead = HeaderSize + BodySize /\ size = Block
    BY <1>1, <1>2, <1>6
  <2>2. bytesRead + Block = file.size /\ file.size > 0 /\ bytesRead # file.size
        /\ bytesRead - HeaderSize = BodySize
    BY <1>1, <2>1
  <2>3. ReadCut = Cuts + 1
    BY <1>1, <1>6, <2>2 DEF ReadCut, CutsIn, Cuts
  <2>4. CipherChunk.chunk = Chunk("MAC", MacId, <<>>, StoredMac, Block)
    BY <1>6, <2>1 DEF CipherChunk, StoredMac
  <2>5. CutsIn(file.size) = Cuts + 2 /\ OnCut(file.size)
    BY <1>1 DEF CutsIn, OnCut
  <2>6. Cuts + 2 = Cuts + 1 + 1 /\ Cuts + 1 \in 0 .. Cuts + 1
    BY <1>1
  <2>. QED
    BY <1>3, <2>1, <2>2, <2>3, <2>4, <2>5, <2>6, EndItems
<1>. QED
  BY <1>1, <1>2, <1>4, <1>5, <1>6

\* What has been written before chunk k + 1.
LEMMA WrittenFacts ==
  ASSUME TypeInv, ~Encrypting, ~TooSmall, NEW k \in 0 .. Cuts
  PROVE  /\ Written(k) \in Nat /\ Written(k) <= file.promised
         /\ k < Cuts => Written(k) = IF k * MaxChunk < file.promised THEN k * MaxChunk ELSE file.promised
         /\ Written(k) < file.promised \/ k * MaxChunk >= file.promised
<1>1. /\ file.promised \in Nat /\ MaxChunk \in Nat \ {0} /\ Cuts \in Nat \ {0} /\ k \in Nat /\ k <= Cuts
      /\ CutSize(Cuts) \in 1 .. MaxChunk
  BY CutsFacts, CutSizes
<1>. DEFINE m == k * MaxChunk
            l == (Cuts - 1) * MaxChunk
<1>2. m \in Nat /\ l \in Nat /\ (k = 0 => m = 0)
  BY <1>1
<1>3. k = Cuts => m = l + MaxChunk
  BY <1>1
<1>4. /\ SumTo(k) = IF k < Cuts THEN m ELSE l + CutSize(Cuts)
      /\ Written(k) = IF k = 0 THEN 0 ELSE IF SumTo(k) < file.promised THEN SumTo(k) ELSE file.promised
  BY DEF SumTo, Written
<1>. HIDE DEF m, l
<1>5. SumTo(k) \in Nat /\ SumTo(k) <= m
  BY <1>1, <1>2, <1>3, <1>4
<1>6. /\ Written(k) \in Nat /\ Written(k) <= file.promised
      /\ k < Cuts => Written(k) = IF m < file.promised THEN m ELSE file.promised
      /\ Written(k) < file.promised \/ m >= file.promised
  BY <1>1, <1>2, <1>4, <1>5
<1>. QED
  BY <1>6 DEF m

\* What is written of chunk k + 1: all of it, unless the size the header gives
\* is reached.
LEMMA WriteNext ==
  ASSUME TypeInv, ~Encrypting, ~TooSmall, NEW k \in 0 .. Cuts - 1, Written(k) < file.promised
  PROVE  LET size == IF Written(k) + CutSize(k + 1) > file.promised
                     THEN file.promised - Written(k) ELSE CutSize(k + 1)
         IN  /\ Written(k + 1) - Written(k) = size
             /\ Written(k) + size = Written(k + 1)
<1>1. /\ file.promised \in Nat /\ MaxChunk \in Nat \ {0} /\ Cuts \in Nat \ {0} /\ k \in Nat /\ k < Cuts
      /\ k \in 0 .. Cuts
      /\ CutSize(Cuts) \in 1 .. MaxChunk
      /\ \A i \in 1 .. Cuts - 1 : CutSize(i) = MaxChunk
  BY CutsFacts, CutSizes
<1>. DEFINE m == k * MaxChunk
<1>2. Written(k) = m /\ m \in Nat
  BY <1>1, WrittenFacts
<1>3. SumTo(k + 1) = m + CutSize(k + 1) /\ CutSize(k + 1) \in Nat
  <2>1. CASE k + 1 < Cuts
    <3>1. k + 1 \in 1 .. Cuts - 1 /\ (k + 1) * MaxChunk = m + MaxChunk
      BY <1>1, <2>1
    <3>. QED
      BY <1>1, <2>1, <3>1 DEF SumTo
  <2>2. CASE ~(k + 1 < Cuts)
    <3>1. k + 1 = Cuts /\ k = Cuts - 1
      BY <1>1, <2>2
    <3>2. SumTo(k + 1) = (Cuts - 1) * MaxChunk + CutSize(Cuts)
      BY <2>2 DEF SumTo
    <3>. QED
      BY <1>1, <3>1, <3>2
  <2>. QED
    BY <2>1, <2>2
<1>4. Written(k + 1) = IF SumTo(k + 1) < file.promised THEN SumTo(k + 1) ELSE file.promised
  BY <1>1 DEF Written
<1>. HIDE DEF m
<1>. QED
  BY <1>1, <1>2, <1>3, <1>4

\* The pieces written make up the plain file when they reach its size, and the
\* last of them was needed.
LEMMA WholeFacts ==
  ASSUME TypeInv, ~Encrypting, ~TooSmall, NEW t \in Seq(Chunks), Len(t) <= Cuts,
         \A i \in 1 .. Len(t) : t[i] = ClearPiece[i],
         Written(Len(t)) = file.promised, Len(t) >= 1 => Written(Len(t) - 1) < file.promised
  PROVE  Whole(t)
<1>. DEFINE k == Len(t)
            n == file.promised
<1>1. /\ n \in Nat /\ MaxChunk \in Nat \ {0} /\ Cuts \in Nat \ {0} /\ k \in Nat /\ k \in 0 .. Cuts
  BY CutsFacts
<1>2. n <= k * MaxChunk
  BY <1>1, WrittenFacts
<1>3. k >= 1 => (k - 1) * MaxChunk < n /\ Written(k - 1) = (k - 1) * MaxChunk
  <2>. SUFFICES ASSUME k >= 1 PROVE (k - 1) * MaxChunk < n /\ Written(k - 1) = (k - 1) * MaxChunk
    OBVIOUS
  <2>1. k - 1 \in 0 .. Cuts /\ k - 1 < Cuts /\ Written(k - 1) < n
    BY <1>1
  <2>2. Written(k - 1) = IF (k - 1) * MaxChunk < n THEN (k - 1) * MaxChunk ELSE n
    BY <2>1, WrittenFacts
  <2>. QED
    BY <1>1, <2>1, <2>2
<1>4. DataChunks(n) = k
  <2>1. k * MaxChunk < n + MaxChunk
    <3>1. CASE k = 0
      <4>1. k * MaxChunk = 0
        BY <1>1, <3>1
      <4>. QED
        BY <1>1, <4>1
    <3>2. CASE k >= 1
      <4>1. (k - 1) * MaxChunk = k * MaxChunk - MaxChunk
        BY <1>1
      <4>2. k * MaxChunk \in Nat
        BY <1>1
      <4>. QED
        BY <1>1, <1>3, <3>2, <4>1, <4>2
    <3>. QED
      BY <1>1, <3>1, <3>2
  <2>2. k \in Int
    BY <1>1
  <2>. HIDE DEF k, n
  <2>. QED
    BY <1>1, <1>2, <2>1, <2>2, DataChunksUnique
<1>5. Expected = [i \in 1 .. k |-> Data(Chunk("data", i, <<>>, <<>>, PieceSize(n, i)))]
  BY <1>4 DEF Expected, PlainFile
<1>. HIDE DEF k, n
<1>6. ASSUME NEW i \in 1 .. k
      PROVE  Written(i) - Written(i - 1) = PieceSize(n, i) /\ PieceSize(n, i) \in Int
  <2>1. CASE i < k
    <3>1. i \in 0 .. Cuts /\ i - 1 \in 0 .. Cuts /\ i < Cuts /\ i - 1 < Cuts /\ i - 1 \in Nat
      BY <1>1, <2>1
    <3>2. i * MaxChunk <= (k - 1) * MaxChunk
      BY <1>1, <2>1
    <3>3. i * MaxChunk = (i - 1) * MaxChunk + MaxChunk /\ i * MaxChunk \in Nat /\ (i - 1) * MaxChunk \in Nat
      BY <1>1, <3>1
    <3>4. i * MaxChunk < n /\ (i - 1) * MaxChunk < n
      <4>1. (k - 1) * MaxChunk < n /\ (k - 1) * MaxChunk \in Int
        BY <1>1, <1>3, <2>1
      <4>. QED
        BY <1>1, <3>2, <3>3, <4>1
    <3>5. Written(i) = i * MaxChunk /\ Written(i - 1) = (i - 1) * MaxChunk
      BY <3>1, <3>4, WrittenFacts DEF n
    <3>6. PieceSize(n, i) = MaxChunk
      BY <1>1, <3>3, <3>4 DEF PieceSize
    <3>. QED
      BY <1>1, <3>3, <3>5, <3>6
  <2>2. CASE i = k
    <3>1. k >= 1 /\ Written(i) = n /\ Written(i - 1) = (k - 1) * MaxChunk
      BY <1>1, <1>3, <2>2 DEF k, n
    <3>2. k * MaxChunk = (k - 1) * MaxChunk + MaxChunk /\ (k - 1) * MaxChunk \in Int
      BY <1>1, <3>1
    <3>3. PieceSize(n, i) = n - (k - 1) * MaxChunk
      BY <1>1, <1>2, <2>2, <3>2 DEF PieceSize
    <3>. QED
      BY <1>1, <3>1, <3>2, <3>3
  <2>. QED
    BY <1>1, <2>1, <2>2
<1>7. ASSUME NEW i \in 1 .. k
      PROVE  /\ t[i].id = i /\ t[i].size = PieceSize(n, i)
             /\ Expected[i].id = i /\ Expected[i].size = PieceSize(n, i)
             /\ SameBody => t[i] = Expected[i]
             /\ Expected[i] \in Chunks
  <2>. DEFINE size == PieceSize(n, i)
              c == ClearItems[i]
  <2>1. i \in 1 .. Cuts /\ i \in Nat
    BY <1>1
  <2>2. /\ c.id = i /\ c.digest = <<>> /\ c.action = "WRITE"
        /\ c = Decipher(PassedItems[i], ChainOf(PassedItems[i - 1]))
        /\ SameBody => c.seal = <<>>
    BY <2>1, ClearItem
  <2>3. t[i] = [Data(c) EXCEPT !.size = size]
    <3>1. t[i] = ClearPiece[i]
      BY DEF k
    <3>2. ClearPiece[i] = [Data(c) EXCEPT !.size = Written(i) - Written(i - 1)]
      BY <2>1 DEF ClearPiece
    <3>. QED
      BY <1>6, <3>1, <3>2
  <2>4. Expected[i] = Data(Chunk("data", i, <<>>, <<>>, size))
    BY <1>5
  <2>5. size \in Int
    BY <1>6
  <2>6. PassedItems[i] = Chunk("WRITE", i, PassedItems[i].seal, <<>>, CutSize(i))
    <3>1. PassedItems[i] = [StoredItems[i] EXCEPT !.action = "WRITE"]
      BY <2>1 DEF PassedItems
    <3>2. StoredItems[i] = Chunk("GEN_MAC", i, DataSeal(i), <<>>, CutSize(i))
      BY <2>1 DEF StoredItems
    <3>. QED
      BY <3>1, <3>2 DEF Chunk
  <2>. HIDE DEF size
  <2>7. c = Chunk("WRITE", i, c.seal, <<>>, CutSize(i))
    <3>. DEFINE s == PassedItems[i].seal
    <3>1. PassedItems[i] = Chunk("WRITE", i, s, <<>>, CutSize(i))
      BY <2>6
    <3>. HIDE DEF s
    <3>. DEFINE s2 == IF s = <<ChainOf(PassedItems[i - 1])>> THEN <<>> ELSE <<Garbled>>
    <3>2. c = [Chunk("WRITE", i, s, <<>>, CutSize(i)) EXCEPT !.seal = s2]
      <4>1. Chunk("WRITE", i, s, <<>>, CutSize(i)).seal = s
        BY DEF Chunk
      <4>. QED
        BY <2>2, <3>1, <4>1 DEF Decipher
    <3>. HIDE DEF c, s2
    <3>. QED
      BY <3>2 DEF Chunk
  <2>. HIDE DEF c
  <2>8. t[i] = Chunk("data", i, c.seal, <<>>, size)
    <3>. DEFINE s == c.seal
    <3>1. c = Chunk("WRITE", i, s, <<>>, CutSize(i))
      BY <2>7
    <3>. HIDE DEF s
    <3>. DEFINE z == CutSize(i)
    <3>. HIDE DEF z
    <3>2. Data(Chunk("WRITE", i, s, <<>>, z)) = Chunk("data", i, s, <<>>, z)
      BY DEF Data, Chunk
    <3>3. [Chunk("data", i, s, <<>>, z) EXCEPT !.size = size] = Chunk("data", i, s, <<>>, size)
      BY DEF Chunk
    <3>. QED
      BY <2>3, <3>1, <3>2, <3>3 DEF s, z
  <2>9. /\ Data(Chunk("data", i, <<>>, <<>>, size)) = Chunk("data", i, <<>>, <<>>, size)
        /\ Chunk("data", i, <<>>, <<>>, size).id = i
        /\ Chunk("data", i, <<>>, <<>>, size).size = size
    BY DEF Data, Chunk
  <2>10. Chunk("data", i, <<>>, <<>>, size) \in Chunks
    <3>1. "data" \in Actions /\ i \in Int /\ <<>> \in Seq(Int) /\ <<>> \in Seq(Pieces)
      BY <2>1 DEF Actions
    <3>. QED
      BY <2>5, <3>1 DEF Chunk, Chunks
  <2>11. t[i].id = i /\ t[i].size = size
    BY <2>8 DEF Chunk
  <2>. QED
    BY <2>2, <2>4, <2>8, <2>9, <2>10, <2>11 DEF size
<1>8. t \in Seq(Chunks) /\ Len(t) = k /\ DOMAIN t = 1 .. k /\ DOMAIN Expected = 1 .. k /\ t # NULL
  BY <1>5, FileNotNull DEF k
<1>9. Shape(t) = Shape(Expected)
  <2>1. \A i \in 1 .. k : <<t[i].id, t[i].size>> = <<Expected[i].id, Expected[i].size>>
    BY <1>7
  <2>2. Shape(t) = [i \in 1 .. k |-> <<t[i].id, t[i].size>>]
    BY <1>8 DEF Shape
  <2>3. Shape(Expected) = [i \in 1 .. k |-> <<Expected[i].id, Expected[i].size>>]
    BY <1>8 DEF Shape
  <2>. QED
    BY <2>1, <2>2, <2>3
<1>10. SameBody => t = Expected
  <2>1. Expected \in Seq(Chunks) /\ Len(Expected) = k
    <3>1. Expected = [i \in 1 .. k |-> Expected[i]]
      BY <1>5
    <3>2. \A i \in 1 .. k : Expected[i] \in Chunks
      BY <1>7
    <3>. QED
      BY <1>1, <3>1, <3>2
  <2>. QED
    BY <1>7, <1>8, <2>1, SeqEqual
<1>. QED
  BY <1>8, <1>9, <1>10 DEF Whole, SameBody

\* All chunks of an intact file are enough.
LEMMA AllWritten ==
  ASSUME TypeInv, ~Encrypting, ~TooSmall, file.damage = "intact"
  PROVE  Written(Cuts) = file.promised
<1>1. /\ file.promised \in Nat /\ Cuts \in Nat \ {0} /\ file.promised <= BodySize /\ BodySize \in Nat
      /\ (Cuts - 1) * MaxChunk + CutSize(Cuts) >= BodySize
      /\ SumTo(Cuts) = (Cuts - 1) * MaxChunk + CutSize(Cuts)
  BY CutsFacts, CutSizes DEF SumTo
<1>2. ~(SumTo(Cuts) < file.promised)
  <2>1. MaxChunk \in Nat /\ CutSize(Cuts) \in Nat /\ (Cuts - 1) * MaxChunk \in Int
    BY <1>1, CutsFacts, CutSizes
  <2>. QED
    BY <1>1, <2>1
<1>. QED
  BY <1>1, <1>2 DEF Written

-----------------------------------------------------------------------------
(* The invariant *)

LEMMA DecryptInit ==
  Init /\ ~Encrypting => DecInv
<1>. SUFFICES ASSUME Init, ~Encrypting PROVE DecInv
  OBVIOUS
<1>1. /\ running /\ error = "none" /\ header /\ even /\ macHeader /\ valid = FALSE
      /\ queue = [q \in Queues |-> <<>>] /\ hold = [t \in Threads |-> NULL]
      /\ bytesRead = 0 /\ bytesWritten = 0 /\ digest = <<>> /\ temp = NULL /\ target = NULL
      /\ status = NULL
  BY DEF Init, PipelineInit, ReadInit, CryptoInit, MacInit, WriteInit
<1>2. \A t \in Threads \cup {"main"} : pc[t] = "start"
  <2>1. pc = [t \in Threads \cup {"main"} |-> "start"]
    BY DEF Init, PipelineInit
  <2>. QED
    BY ONLY <2>1
<1>3. pc["main"] = "start" /\ ~Launched /\ \A t \in Threads : pc[t] = "start"
  BY <1>2 DEF Launched
<1>4. Outcome
  BY <1>1, <1>3, StatusAssumption DEF Outcome, Statuses, Threads
<1>5. Hashing
  <2>1. queue["mac"] = <<>> /\ <<>> \in Seq(Stored)
    BY <1>1 DEF Queues
  <2>2. hold["read"] = NULL /\ pc["mac"] = "start"
    BY <1>1, <1>3 DEF Threads
  <2>3. \A i \in 1 .. Len(digest) : FALSE
    <3>1. Len(digest) = 0
      BY <1>1
    <3>. QED
      BY <3>1
  <2>4. macHeader <=> digest = <<>>
    BY <1>1
  <2>. QED
    BY <1>1, <2>1, <2>2, <2>3, <2>4 DEF Hashing
<1>6. Untouched
  BY <1>1, <1>3 DEF Untouched
<1>. QED
  BY <1>3, <1>4, <1>5, <1>6 DEF DecInv, StillNothing, Flowing, Going

\* The chunks of the file are the only ones to be hashed.
LEMMA StoredFacts ==
  ASSUME TypeInv, ~Encrypting, ~TooSmall
  PROVE  /\ \A k \in 0 .. Cuts + 2 : StoredItems[k] \in Stored
         /\ DONE \in Stored /\ DONE = StoredItems[Cuts + 2]
<1>1. Cuts \in Nat /\ DONE = StoredItems[Cuts + 2]
  BY CutsFacts, EndItems
<1>2. \A k \in 0 .. Cuts + 2 : StoredItems[k] \in Stored
  BY DEF Stored
<1>. QED
  BY <1>1, <1>2

\* As long as there is nothing to read, nothing but DONE moves.
LEMMA NothingStays ==
  ASSUME TypeInv, DecInv, ~Encrypting, [Next]_vars
  PROVE  StillNothing'
<1>. SUFFICES ASSUME Going', origFileSize' = 0 PROVE NothingCame'
  BY DEF StillNothing
<1>. USE DEF Threads, Queues
<1>1. /\ pc \in [Threads \cup {"main"} -> Pcs] /\ pc["main"] \in MainPcs
      /\ queue \in [Queues -> Seq(Good)] /\ hold \in [Threads -> Good \cup {NULL}]
      /\ ReadOut = "mac" /\ CryptoOut = "write" /\ MacOut = "crypto"
      /\ bytesRead \in 0 .. origFileSize /\ (pc["read"] = "start" => origFileSize = 0)
      /\ (pc["crypto"] = "put" => hold["crypto"] # NULL)
  BY DEF TypeInv, PcsTyped, QueuesTyped, HoldsTyped, ReadTyped, ReadOut, CryptoOut, MacOut
<1>2. CASE StartThreads
  <2>1. /\ pc["main"] = "start" /\ UNCHANGED <<queue, hold, flagVars, threadVars>>
        /\ \A t \in Threads : pc'[t] = pc[t]
    BY <1>1, <1>2 DEF StartThreads, Goto
  <2>. QED
    BY <2>1 DEF DecInv, Untouched, NothingCame, flagVars, threadVars, readVars, cryptoVars,
                macVars, writeVars
<1>. DEFINE Idle == UNCHANGED vars \/ LeaveBar \/ BarFull \/ Sleep \/ Terminated
<1>3. CASE Idle
  <2>1. /\ UNCHANGED <<queue, hold, flagVars, threadVars>>
        /\ \A t \in Threads : pc'[t] = pc[t]
        /\ Launched' => Launched
    BY <1>1, <1>3 DEF LeaveBar, BarFull, Sleep, Terminated, Goto, vars, pipelineVars, Launched
  <2>2. NothingCame
    BY <2>1 DEF DecInv, StillNothing, Going, KeepGoing, flagVars, threadVars, readVars
  <2>. QED
    BY <2>1, <2>2 DEF NothingCame, flagVars, threadVars, readVars, cryptoVars, macVars, writeVars
<1>4. CASE Refuse \/ JoinAndCleanUp
  BY <1>1, <1>4 DEF Refuse, JoinAndCleanUp, Return, Go, Going, Launched
<1>5. ASSUME ReadStep \/ CryptoStep \/ MacStep \/ WriteStep
      PROVE  /\ NothingCame /\ running = TRUE /\ error = "none" /\ error' = "none"
             /\ KeepGoing /\ bytesRead = 0 /\ origFileSize = 0
  <2>1. running' \in {running, FALSE} /\ (error' = "none" => error = "none")
    <3>2. CASE ReadStep
      BY <3>2 DEF ReadStep, Reader, ReadOpen, ReadChunk, ReadQueue, ReadEnd, ReadDone, flagVars
    <3>3. CASE CryptoStep
      BY <3>3 DEF CryptoStep, Crypto, CryptoStart, CryptoTurn, CryptoNothing, CryptoSeesDone,
                  EncryptHeader, EncryptChunk, StripHeader, DecryptChunk, CryptoPut, CryptoDone, flagVars
    <3>4. CASE MacStep
      BY <3>4 DEF MacStep, Mac, MacStart, GenerateCond, GenerateGet, GenerateIdle, GeneratePut,
                  GenerateAppend, AuthTurn, AuthTake, AuthHeld, AuthHeaderBad, AuthHash, AuthPass,
                  AuthFinal, AuthStored, AuthFetch, AuthVerdict, MacDone, flagVars
    <3>5. CASE WriteStep
      BY <3>5 DEF WriteStep, Writer, WriteOpen, WriteTurn, WriteTake, WriteChunk, WriteFinish,
                  WriteRename, WriteStop, flagVars
    <3>. QED
      BY <1>5, <3>2, <3>3, <3>4, <3>5
  <2>3. Launched
    BY <1>5 DEF ReadStep, CryptoStep, MacStep, WriteStep, Started, Launched
  <2>2. origFileSize = 0
    BY <1>1, <1>5
    DEF ReadStep, Reader, ReadOpen, ReadChunk, ReadQueue, ReadEnd, ReadDone, readVars,
        CryptoStep, MacStep, WriteStep
  <2>. QED
    <3>1. running \in BOOLEAN /\ KeepGoing'
      BY DEF Going, TypeInv, FlagsTyped
    <3>2. running = TRUE /\ error = "none" /\ error' = "none"
      BY <2>1, <3>1 DEF KeepGoing
    <3>3. Going
      BY <2>3, <3>2 DEF Going, KeepGoing
    <3>. QED
      BY <1>1, <2>2, <3>2, <3>3 DEF DecInv, StillNothing, Going
<1>6. CASE ReadStep
  <2>1. /\ NothingCame /\ UNCHANGED <<cryptoVars, macVars, writeVars>> /\ Reader /\ bytesRead = 0
        /\ origFileSize = 0
    BY <1>5, <1>6 DEF ReadStep
  <2>2. CASE ReadOpen \/ ReadEnd
    <3>1. /\ UNCHANGED <<queue, hold>>
          /\ pc["read"] \in {"start", "loop"}
          /\ \E to \in {"loop", "exit", "flush"} : pc' = [pc EXCEPT !["read"] = to]
          /\ pc'["read"] # "exit"
      BY <1>1, <1>5, <1>6, <2>2 DEF ReadOpen, ReadEnd, Goto, Go
    <3>. QED
      BY <1>1, <2>1, <3>1 DEF NothingCame, cryptoVars, macVars, writeVars
  <2>3. CASE ReadDone
    <3>1. /\ pc["read"] = "flush" /\ pc' = [pc EXCEPT !["read"] = "exit"] /\ UNCHANGED hold
          /\ queue' = [queue EXCEPT !["mac"] = Append(@, DONE)]
      BY <1>1, <2>3 DEF ReadDone, Goto, Put
    <3>2. queue["mac"] = <<>> /\ pc["mac"] \in {"start", "auth", "take"}
      BY <2>1, <3>1 DEF NothingCame
    <3>3. queue'["mac"] = <<DONE>> /\ queue'["crypto"] = <<>> /\ queue'["write"] = <<>>
      <4>1. \A d : Append(<<>>, d) = <<d>>
        OBVIOUS
      <4>2. queue'["mac"] = Append(<<>>, DONE)
        BY <1>1, <3>1, <3>2
      <4>3. queue'["crypto"] = queue["crypto"] /\ queue'["write"] = queue["write"]
        BY <1>1, <3>1
      <4>. QED
        BY <2>1, <4>1, <4>2, <4>3 DEF NothingCame
    <3>. QED
      BY <1>1, <2>1, <3>1, <3>2, <3>3 DEF NothingCame, cryptoVars, macVars, writeVars
  <2>4. CASE ReadChunk \/ ReadQueue
    BY <2>1, <2>4 DEF ReadChunk, ReadQueue, Goto, NothingCame
  <2>. QED
    BY <2>1, <2>2, <2>3, <2>4 DEF Reader
<1>7. CASE CryptoStep
  <2>1. /\ NothingCame /\ KeepGoing /\ UNCHANGED <<readVars, macVars, writeVars>> /\ Crypto
        /\ Taken = NULL
    BY <1>5, <1>7 DEF CryptoStep, Taken, front, NothingCame
  <2>2. /\ UNCHANGED <<queue, hold, cryptoVars>>
        /\ \E to \in {"loop", "take"} : pc' = [pc EXCEPT !["crypto"] = to]
    BY <1>1, <1>5, <1>7, <2>1
    DEF Crypto, CryptoStart, CryptoTurn, CryptoNothing, CryptoSeesDone, EncryptHeader, EncryptChunk,
        StripHeader, DecryptChunk, CryptoPut, CryptoDone, Goto, Go, KeepGoing, NothingCame
  <2>. QED
    BY <1>1, <2>1, <2>2 DEF NothingCame, cryptoVars, macVars, writeVars
<1>8. CASE MacStep
  <2>1. /\ NothingCame /\ KeepGoing /\ UNCHANGED <<readVars, cryptoVars, writeVars>> /\ Mac
        /\ hold["mac"] = NULL
    BY <1>5, <1>8 DEF MacStep, NothingCame
  <2>2. CASE AuthTake /\ queue["mac"] # <<>>
    <3>1. queue["mac"] = <<DONE>> /\ pc["read"] = "exit"
      BY <2>1, <2>2 DEF NothingCame
    <3>2. front("mac") = DONE /\ DONE # NULL /\ DONE.action = "DONE"
      BY <3>1, DoneType, GoodFacts DEF front, DONE, Chunk
    <3>3. /\ pc["mac"] = "take" /\ pc' = [pc EXCEPT !["mac"] = "final"] /\ UNCHANGED <<hold, macVars>>
          /\ queue' = [queue EXCEPT !["mac"] = Tail(@)]
      BY <2>2, <3>2 DEF AuthTake, deque, Go
    <3>4. queue'["mac"] = <<>> /\ queue'["crypto"] = queue["crypto"] /\ queue'["write"] = queue["write"]
      BY <1>1, <3>1, <3>3
    <3>. QED
      BY <1>1, <2>1, <3>1, <3>3, <3>4 DEF NothingCame, cryptoVars, macVars, writeVars
  <2>3. CASE ~(AuthTake /\ queue["mac"] # <<>>)
    <3>1. /\ UNCHANGED <<queue, hold, digest>>
          /\ \/ /\ pc["mac"] \in {"start", "auth", "take"}
                /\ \E to \in {"auth", "take"} : pc' = [pc EXCEPT !["mac"] = to]
             \/ /\ pc["mac"] \in {"final", "stored", "fetch"}
                /\ \E to \in {"stored", "fetch"} : pc' = [pc EXCEPT !["mac"] = to]
      <4>1. CASE pc["mac"] \in {"start", "auth", "take"}
        BY <1>1, <2>1, <2>3, <4>1
        DEF Mac, MacStart, GenerateCond, GenerateGet, GenerateIdle, GeneratePut, GenerateAppend,
            AuthTurn, AuthTake, AuthHeld, AuthHeaderBad, AuthHash, AuthPass, AuthFinal, AuthStored,
            AuthFetch, AuthVerdict, MacDone, Goto, Go, Keep, Held, front, macVars
      <4>2. CASE pc["mac"] \in {"final", "stored", "fetch"}
        <5>1. front("mac") = NULL
          BY <2>1, <4>2 DEF NothingCame, front
        <5>2. /\ UNCHANGED <<queue, digest>>
              /\ hold' = hold \/ hold' = [hold EXCEPT !["mac"] = NULL]
              /\ \E to \in {"stored", "fetch"} : pc' = [pc EXCEPT !["mac"] = to]
          BY <1>1, <1>5, <1>8, <2>1, <4>2, <5>1
          DEF Mac, MacStart, GenerateCond, GenerateGet, GenerateIdle, GeneratePut, GenerateAppend,
              AuthTurn, AuthTake, AuthHeld, AuthHeaderBad, AuthHash, AuthPass, AuthFinal, AuthStored,
              AuthFetch, AuthVerdict, MacDone, Goto, Go, Keep, Held, macVars, KeepGoing
        <5>3. [hold EXCEPT !["mac"] = NULL] = hold
          BY <1>1, <2>1
        <5>. QED
          BY <4>2, <5>2, <5>3
      <4>. QED
        BY <2>1, <4>1, <4>2 DEF NothingCame
    <3>. QED
      BY <1>1, <2>1, <3>1 DEF NothingCame, cryptoVars, writeVars
  <2>. QED
    BY <2>2, <2>3
<1>9. CASE WriteStep
  <2>1. /\ NothingCame /\ KeepGoing /\ UNCHANGED <<readVars, cryptoVars, macVars>> /\ Writer
        /\ front("write") = NULL /\ ~SizeReached
    BY <1>5, <1>9 DEF WriteStep, NothingCame, front, DecInv, Hashing, SizeReached
  <2>2. /\ UNCHANGED <<queue, hold, bytesWritten>>
        /\ temp' = temp \/ temp' = <<>>
        /\ \E to \in {"loop", "take"} : pc' = [pc EXCEPT !["write"] = to]
    BY <1>1, <1>5, <1>9, <2>1
    DEF Writer, WriteOpen, WriteTurn, WriteTake, WriteChunk, WriteFinish, WriteRename, WriteStop,
        Goto, Go, KeepGoing, NothingCame, writeVars
  <2>. QED
    BY <1>1, <2>1, <2>2 DEF NothingCame, cryptoVars, macVars
<1>. HIDE DEF Idle
<1>. QED
  BY <1>2, <1>3, <1>4, <1>6, <1>7, <1>8, <1>9 DEF Next, MainStep, Idle

\* The other steps of the read thread.  Its other end is the MAC thread.
LEMMA ReadKeepsDecInv ==
  ASSUME TypeInv, DecInv, ~Encrypting, ReadStep, ~ReadOpen, StillNothing'
  PROVE  DecInv'
<1>. USE DEF Threads, Queues
<1>1. /\ Started /\ Reader /\ Launched /\ ~TooSmall
      /\ pc \in [Threads \cup {"main"} -> Pcs] /\ hold \in [Threads -> Good \cup {NULL}]
      /\ queue \in [Queues -> Seq(Good)]
      /\ ReadOut = "mac"
  BY DEF ReadStep, TypeInv, PcsTyped, HoldsTyped, QueuesTyped, Started, Launched, ReadOut
<1>2. /\ UNCHANGED <<cryptoVars, macVars, writeVars, status, file, running, valid, newFileSize>>
      /\ OthersKeep("read")
      /\ queue'["crypto"] = queue["crypto"] /\ queue'["write"] = queue["write"]
      /\ pc["read"] # "exit" /\ pc'["read"] # "start" /\ origFileSize' = origFileSize
  BY <1>1 DEF ReadStep, Reader, ReadOpen, ReadChunk, ReadQueue, ReadEnd, ReadDone, Goto, Go,
              Put, Keep, flagVars, readVars, OthersKeep
<1>3. UNCHANGED FixedParts
  BY <1>2, FixedPartsFacts
<1>4. /\ pc["main"] \in {"bar", "join"} /\ pc'["main"] \in {"bar", "join", "crashed"}
      /\ error' = "none" => error = "none"
      /\ Flowing' => Flowing /\ error' = error
  BY <1>1, <1>2 DEF OthersKeep, Started, Flowing, Going, KeepGoing, Launched
<1>5. Outcome'
  <2>1. Outcome
    BY DEF DecInv
  <2>. QED
    BY <1>2, <1>3, <1>4, <2>1 DEF Outcome, Whole, SameBody, OthersKeep, writeVars, FixedParts
<1>6. Stored' = Stored
  BY <1>3 DEF Stored, FixedParts
<1>7. ASSUME Hashing', Flowing' => StoredInOrder' /\ SourceOK'
      PROVE  DecInv'
  <2>. SUFFICES ASSUME Flowing'
                PROVE  /\ HashOK' /\ EndPassed'
                       /\ Writing' => PassedInOrder' /\ ClearInOrder' /\ DecipherOK' /\ WrittenOK'
    BY <1>4, <1>5, <1>7 DEF DecInv
  <2>1. /\ HashOK /\ EndPassed
        /\ Writing => PassedInOrder /\ ClearInOrder /\ DecipherOK /\ WrittenOK
    BY <1>4 DEF DecInv
  <2>2. HashOK' /\ EndPassed'
    BY <1>2, <1>3, <2>1 DEF HashOK, EndPassed, OthersKeep, macVars, FixedParts
  <2>3. Writing' = Writing
    BY <1>2 DEF Writing, OthersKeep
  <2>4. Writing => PassedInOrder' /\ ClearInOrder'
    <3>1. UNCHANGED <<ClearTook, ClearGave>>
      BY <1>2 DEF ClearTook, ClearGave, HeldCount, OthersKeep, writeVars
    <3>2. UNCHANGED <<AuthGave, DecipherTook>>
      BY <1>2, <1>3, <3>1 DEF AuthGave, DecipherTook, HeldCount, OthersKeep, cryptoVars, macVars, FixedParts
    <3>. QED
      BY <1>2, <1>3, <2>1, <3>1, <3>2 DEF PassedInOrder, ClearInOrder, Holds, FixedParts
  <2>5. Writing => DecipherOK' /\ WrittenOK'
    BY <1>2, <1>3, <2>1
    DEF DecipherOK, WrittenOK, ClearGave, ClearTook, LastBlock, Written, SumTo, CutSize, Cuts, BodySize,
        HeldCount, OthersKeep, cryptoVars, writeVars, FixedParts
  <2>. QED
    BY <2>2, <2>3, <2>4, <2>5
<1>8. /\ StoredInOrder' <=> /\ Len(queue'["mac"]) = ReadPut' - AuthTook
                            /\ Holds(queue'["mac"], StoredItems, AuthTook)
      /\ AuthTook \in Int /\ Cuts \in Nat \ {0} /\ ReadCut \in 0 .. Cuts + 2
      /\ Len(queue["mac"]) \in Nat /\ Cuts' = Cuts /\ BodySize' = BodySize /\ StoredItems' = StoredItems
      /\ file.size \in Nat /\ bytesRead \in 0 .. file.size
  <2>1. AuthTook' = AuthTook /\ AuthTook \in Int
    <3>1. digest \in Seq(Pieces) /\ Cuts \in Nat
      BY <1>1, CutsFacts DEF TypeInv, MacTyped
    <3>2. UNCHANGED <<digest, Cuts>> /\ pc'["mac"] = pc["mac"]
      BY <1>2, <1>3 DEF OthersKeep, macVars, FixedParts
    <3>. QED
      BY <3>1, <3>2 DEF AuthTook
  <2>2. Cuts \in Nat \ {0} /\ ReadCut \in 0 .. Cuts + 2 /\ file.size \in Nat /\ bytesRead \in 0 .. file.size
    <3>1. file.size \in Nat /\ bytesRead \in 0 .. origFileSize /\ origFileSize \in {0, file.size}
      BY <1>1, CutsFacts DEF TypeInv, ReadTyped
    <3>2. bytesRead \in 0 .. file.size
      BY ONLY <3>1
    <3>. QED
      BY <1>1, <3>1, <3>2, CutsFacts, ReadCutRange
  <2>3. StoredItems' = StoredItems /\ Cuts' = Cuts /\ BodySize' = BodySize
    BY <1>3 DEF FixedParts
  <2>4. Len(queue["mac"]) \in Nat
    BY <1>1
  <2>. QED
    BY <2>1, <2>2, <2>3, <2>4 DEF StoredInOrder
<1>9. Flowing => StoredInOrder /\ SourceOK /\ origFileSize = file.size
  BY DEF DecInv, TypeInv, ReadTyped, Flowing
<1>10. Hashing /\ queue["mac"] \in Seq(Stored)
  BY DEF DecInv, Hashing
<1>11. ASSUME queue'["mac"] \in Seq(Stored), hold'["read"] \in Stored \cup {NULL}
       PROVE  Hashing'
  <2>1. pc["mac"] = "fetch" => digest # <<>>
    BY <1>2, <1>10 DEF Hashing
  <2>. QED
    BY <1>2, <1>4, <1>6, <1>10, <1>11, <2>1 DEF Hashing, HeaderSeal, OthersKeep, macVars
<1>12. CASE ReadEnd
  <2>1. /\ UNCHANGED <<queue, hold, bytesRead>>
        /\ pc["read"] = "loop" /\ pc'["read"] = "flush"
        /\ Flowing' => ~(bytesRead < origFileSize)
    BY <1>1, <1>4, <1>12 DEF ReadEnd, Goto, Flowing, Going, KeepGoing, readVars
  <2>2. Hashing'
    BY <1>10, <1>11, <2>1 DEF Hashing
  <2>3. ASSUME Flowing' PROVE StoredInOrder' /\ SourceOK'
    <3>1. StoredInOrder /\ SourceOK /\ bytesRead = file.size
      BY <1>4, <1>8, <1>9, <2>1, <2>3
    <3>2. ReadCut' = ReadCut
      BY <1>2, <1>8, <2>1 DEF ReadCut, CutsIn
    <3>3. ReadPut' = ReadPut
      BY <2>1, <3>1, <3>2 DEF ReadPut, HeldCount
    <3>4. StoredInOrder'
      BY <1>8, <2>1, <3>1, <3>3 DEF StoredInOrder
    <3>5. SourceOK'
      BY <1>2, <1>8, <2>1, <3>1 DEF SourceOK, OnCut
    <3>. QED
      BY <3>4, <3>5
  <2>. QED
    BY <1>7, <2>2, <2>3
<1>13. CASE ReadChunk
  <2>. DEFINE next == bytesRead + CipherChunk.size
  <2>1. /\ pc["read"] = "loop" /\ bytesRead < origFileSize /\ UNCHANGED <<queue, error, running>> /\ KeepGoing
        /\ \/ /\ bytesRead' = next
              /\ hold' = [hold EXCEPT !["read"] = CipherChunk.chunk]
              /\ pc'["read"] = "queue"
           \/ pc'["read"] = "loop" /\ UNCHANGED <<bytesRead, hold>>
    BY <1>1, <1>13 DEF ReadChunk, Go, Keep, flagVars
  <2>2. Flowing /\ StoredInOrder /\ SourceOK
    <3>1. origFileSize # 0
      BY <1>8, <2>1
    <3>. QED
      BY <1>1, <1>9, <2>1, <3>1 DEF Flowing, Going
  <2>3. hold["read"] = NULL /\ OnCut(bytesRead)
    BY <2>1, <2>2 DEF SourceOK
  <2>4. CASE bytesRead' = next /\ hold' = [hold EXCEPT !["read"] = CipherChunk.chunk] /\ pc'["read"] = "queue"
    <3>1. /\ CipherChunk.chunk = StoredItems[ReadCut] /\ CutsIn(next) = ReadCut + 1
          /\ OnCut(next) /\ next > 0 /\ ReadCut \in 0 .. Cuts + 1
      BY <1>1, <2>1, <2>3, ReadNextCut
    <3>. HIDE DEF next
    <3>2. hold'["read"] = StoredItems[ReadCut] /\ bytesRead' = next
      BY <1>1, <2>4, <3>1
    <3>3. hold'["read"] # NULL
      BY <2>4, ReadTypes DEF TypeInv, HoldsTyped
    <3>4. ReadCut' = ReadCut + 1
      <4>1. ReadCut' = CutsIn(next)
        BY <1>2, <1>8, <3>2 DEF ReadCut, CutsIn
      <4>. QED
        BY <3>1, <4>1
    <3>5. ReadPut' = ReadPut
      BY <1>8, <2>1, <2>3, <2>4, <3>3, <3>4 DEF ReadPut, HeldCount
    <3>6. StoredInOrder'
      BY <1>8, <2>1, <2>2, <3>5 DEF StoredInOrder
    <3>7. SourceOK'
      <4>1. OnCut(bytesRead)'
        BY <1>2, <1>8, <3>1, <3>2 DEF OnCut
      <4>2. hold'["read"] = StoredItems'[ReadCut' - 1] /\ bytesRead' > 0
        BY <1>8, <3>1, <3>2, <3>4
      <4>. QED
        BY <2>4, <4>1, <4>2 DEF SourceOK
    <3>8. Hashing'
      <4>1. StoredItems[ReadCut] \in Stored
        BY <1>1, <1>8, <3>1, StoredFacts
      <4>. QED
        BY <1>10, <1>11, <2>1, <3>2, <4>1
    <3>. QED
      BY <1>7, <3>6, <3>7, <3>8
  <2>5. CASE pc'["read"] = "loop" /\ UNCHANGED <<bytesRead, hold>>
    <3>1. ReadCut' = ReadCut
      BY <1>2, <1>8, <2>5 DEF ReadCut, CutsIn
    <3>2. ReadPut' = ReadPut
      BY <2>1, <2>5, <3>1 DEF ReadPut, HeldCount
    <3>3. StoredInOrder'
      BY <1>8, <2>1, <2>2, <3>2 DEF StoredInOrder
    <3>4. SourceOK'
      BY <1>2, <1>8, <2>1, <2>2, <2>5 DEF SourceOK, OnCut
    <3>5. Hashing'
      BY <1>10, <1>11, <2>1, <2>5 DEF Hashing
    <3>. QED
      BY <1>7, <3>3, <3>4, <3>5
  <2>. QED
    BY <2>1, <2>4, <2>5
<1>14. CASE ReadQueue
  <2>1. /\ pc["read"] = "queue" /\ pc'["read"] = "loop"
        /\ queue'["mac"] = Append(queue["mac"], hold["read"])
        /\ hold'["read"] = NULL /\ UNCHANGED bytesRead
    BY <1>1, <1>14 DEF ReadQueue, Goto, Put, Keep, readVars
  <2>2. hold["read"] \in Good /\ hold["read"] # NULL /\ hold["read"] \in Stored
    BY <1>1, <1>10, <2>1 DEF TypeInv, HoldsTyped, Hashing
  <2>3. Hashing'
    <3>1. queue'["mac"] \in Seq(Stored)
      BY <1>10, <2>1, <2>2
    <3>. QED
      BY <1>11, <2>1, <3>1
  <2>4. ASSUME Flowing' PROVE StoredInOrder' /\ SourceOK'
    <3>1. StoredInOrder /\ SourceOK
      BY <1>4, <1>9, <2>4
    <3>2. ReadCut' = ReadCut
      BY <1>2, <1>8, <2>1 DEF ReadCut, CutsIn
    <3>3. ReadPut = ReadCut - 1 /\ ReadPut' = ReadCut
      BY <1>8, <2>1, <2>2, <3>2 DEF ReadPut, HeldCount
    <3>4. AuthTook + Len(queue["mac"]) = ReadCut - 1
      BY <1>8, <3>1, <3>3 DEF StoredInOrder
    <3>5. Len(queue'["mac"]) = Len(queue["mac"]) + 1
      BY <1>1, <2>1, <2>2
    <3>6. Holds(queue'["mac"], StoredItems, AuthTook)
      <4>1. hold["read"] = StoredItems[AuthTook + Len(queue["mac"])]
        BY <2>1, <3>1, <3>4 DEF SourceOK
      <4>2. queue["mac"] \in Seq(Good) /\ Holds(queue["mac"], StoredItems, AuthTook)
        BY <1>1, <3>1 DEF StoredInOrder
      <4>. QED
        BY <1>8, <2>1, <2>2, <4>1, <4>2, HoldsPut
    <3>7. StoredInOrder'
      <4>1. Len(queue'["mac"]) = ReadPut' - AuthTook
        BY <1>8, <3>3, <3>4, <3>5
      <4>. QED
        BY <1>8, <3>6, <4>1
    <3>8. SourceOK'
      BY <1>2, <1>8, <2>1, <3>1 DEF SourceOK, OnCut
    <3>. QED
      BY <3>7, <3>8
  <2>. QED
    BY <1>7, <2>3, <2>4
<1>15. CASE ReadDone
  <2>1. /\ pc["read"] = "flush" /\ pc'["read"] = "exit" /\ UNCHANGED <<hold, bytesRead>>
        /\ queue'["mac"] = Append(queue["mac"], DONE)
    BY <1>1, <1>15 DEF ReadDone, Goto, Put, readVars
  <2>2. Hashing'
    <3>1. queue'["mac"] \in Seq(Stored)
      BY <1>1, <1>10, <2>1, StoredFacts
    <3>. QED
      BY <1>10, <1>11, <2>1, <3>1 DEF Hashing
  <2>3. ASSUME Flowing' PROVE StoredInOrder' /\ SourceOK'
    <3>1. StoredInOrder /\ SourceOK
      BY <1>4, <1>9, <2>3
    <3>2. ReadPut' = Cuts + 3
      BY <1>8, <2>1 DEF ReadPut
    <3>3. ReadPut = Cuts + 2
      <4>1. bytesRead = file.size /\ hold["read"] = NULL /\ bytesRead # 0
        <5>1. file.size # 0
          <6>1. /\ file.size = HeaderSize + BodySize + Block
                /\ HeaderSize \in Nat \ {0} /\ BodySize \in Nat \ {0} /\ Block \in Nat \ {0}
            BY <1>1, CutsFacts
          <6>. QED
            BY ONLY <6>1
        <5>. QED
          BY <2>1, <3>1, <5>1 DEF SourceOK
      <4>2. ReadCut = Cuts + 2
        BY <4>1 DEF ReadCut, CutsIn
      <4>. QED
        BY <1>8, <2>1, <4>1, <4>2 DEF ReadPut, HeldCount
    <3>4. AuthTook + Len(queue["mac"]) = Cuts + 2
      BY <1>8, <3>1, <3>3 DEF StoredInOrder
    <3>5. Len(queue'["mac"]) = Len(queue["mac"]) + 1
      BY <1>1, <2>1, DoneType
    <3>6. Holds(queue'["mac"], StoredItems, AuthTook)
      <4>1. DONE = StoredItems[AuthTook + Len(queue["mac"])]
        BY <1>1, <3>4, EndItems
      <4>2. queue["mac"] \in Seq(Good) /\ Holds(queue["mac"], StoredItems, AuthTook)
        BY <1>1, <3>1 DEF StoredInOrder
      <4>. QED
        BY <1>8, <2>1, <4>1, <4>2, HoldsPut, DoneType
    <3>7. StoredInOrder'
      <4>1. Len(queue'["mac"]) = ReadPut' - AuthTook
        BY <1>8, <3>2, <3>4, <3>5
      <4>. QED
        BY <1>8, <3>6, <4>1
    <3>8. SourceOK'
      BY <1>2, <1>8, <2>1, <3>1 DEF SourceOK, OnCut
    <3>. QED
      BY <3>7, <3>8
  <2>. QED
    BY <1>7, <2>2, <2>3
<1>. QED
  BY <1>1, <1>12, <1>13, <1>14, <1>15 DEF Reader

\* The file is opened, and only now it counts that the other threads have had
\* nothing to do so far.
LEMMA ReadOpenKeepsDecInv ==
  ASSUME TypeInv, DecInv, ~Encrypting, ReadStep, ReadOpen, StillNothing'
  PROVE  DecInv'
<1>. USE DEF Threads, Queues
<1>1. /\ Started /\ Launched /\ pc["read"] = "start" /\ origFileSize = 0 /\ bytesRead = 0
      /\ pc["main"] \in {"bar", "join"}
      /\ UNCHANGED <<cryptoVars, macVars, writeVars, status, file, running, valid, newFileSize,
                     queue, hold, bytesRead>>
      /\ pc \in [Threads \cup {"main"} -> Pcs]
      /\ \E to \in {"loop", "exit"} : pc' = [pc EXCEPT !["read"] = to]
      /\ (pc'["read"] = "loop" /\ error' = error) \/ error' # "none"
  BY DEF ReadStep, ReadOpen, Go, TypeInv, PcsTyped, ReadTyped, Started, Launched
<1>2. /\ \A t \in Threads \ {"read"} : pc'[t] = pc[t]
      /\ pc'["read"] \in {"loop", "exit"} /\ pc'["main"] = pc["main"]
      /\ error' = "none" => error = "none" /\ pc'["read"] = "loop"
  BY <1>1
<1>3. UNCHANGED FixedParts /\ Stored' = Stored
  <2>1. UNCHANGED FixedParts
    BY <1>1, FixedPartsFacts
  <2>. QED
    BY <1>1, <2>1 DEF Stored, FixedParts
<1>4. Outcome'
  <2>1. Outcome /\ pc'["main"] # "over"
    BY <1>1, <1>2 DEF DecInv
  <2>. QED
    BY <1>1, <1>2, <1>3, <2>1 DEF Outcome, Whole, SameBody, writeVars, FixedParts
<1>5. Hashing'
  <2>1. Hashing /\ (pc["mac"] = "fetch" => digest # <<>>)
    BY <1>1 DEF DecInv, Hashing
  <2>. QED
    BY <1>1, <1>2, <1>3, <2>1 DEF Hashing, HeaderSeal, macVars
<1>. SUFFICES ASSUME Flowing'
              PROVE  (/\ StoredInOrder /\ SourceOK /\ HashOK /\ EndPassed
                      /\ Writing => PassedInOrder /\ ClearInOrder /\ DecipherOK /\ WrittenOK)'
  BY <1>1, <1>2, <1>4, <1>5 DEF DecInv
<1>6. NothingCame /\ pc'["read"] = "loop"
  BY <1>1, <1>2 DEF DecInv, StillNothing, Flowing, Going, KeepGoing
<1>7. /\ header' /\ even' /\ bytesRead' = 0 /\ digest' = <<>> /\ Len(digest') = 0
      /\ bytesWritten' = 0 /\ temp' \in {NULL, <<>>}
      /\ hold'["read"] = NULL /\ hold'["crypto"] = NULL /\ hold'["mac"] = NULL /\ hold'["write"] = NULL
      /\ pc'["crypto"] \in {"start", "loop", "take"} /\ pc'["mac"] \in {"start", "auth", "take"}
      /\ pc'["write"] \in {"start", "loop", "take"}
      /\ queue'["crypto"] = <<>> /\ queue'["mac"] = <<>> /\ queue'["write"] = <<>>
      /\ Len(queue'["crypto"]) = 0 /\ Len(queue'["mac"]) = 0 /\ Len(queue'["write"]) = 0
      /\ Cuts' = Cuts /\ Cuts \in Nat \ {0}
  <2>1. Cuts' = Cuts /\ Cuts \in Nat \ {0}
    BY <1>1, <1>3, CutsFacts DEF FixedParts, TypeInv, PcsTyped, Started
  <2>2. /\ pc["mac"] \in {"start", "auth", "take"} /\ queue["mac"] = <<>>
    BY <1>1, <1>6 DEF NothingCame
  <2>3. /\ header' /\ even' /\ bytesRead' = 0 /\ digest' = <<>>
        /\ bytesWritten' = 0 /\ temp' \in {NULL, <<>>}
    BY <1>1, <1>6 DEF NothingCame, cryptoVars, macVars, writeVars
  <2>4. /\ hold'["read"] = NULL /\ hold'["crypto"] = NULL /\ hold'["mac"] = NULL /\ hold'["write"] = NULL
        /\ pc'["crypto"] \in {"start", "loop", "take"} /\ pc'["mac"] \in {"start", "auth", "take"}
        /\ pc'["write"] \in {"start", "loop", "take"}
    BY <1>1, <1>2, <1>6, <2>2 DEF NothingCame
  <2>5. queue'["crypto"] = <<>> /\ queue'["mac"] = <<>> /\ queue'["write"] = <<>>
    BY <1>1, <1>6, <2>2 DEF NothingCame
  <2>. QED
    BY <2>1, <2>3, <2>4, <2>5
<1>. USE DEF HeldCount
<1>8. ReadPut' = 0 /\ AuthTook' = 0 /\ AuthGave' = 0 /\ ClearTook' = 0
  <2>1. ReadCut' = 0
    BY <1>7 DEF ReadCut, CutsIn
  <2>2. ReadPut' = 0
    BY <1>6, <1>7, <2>1 DEF ReadPut
  <2>. QED
    BY <1>7, <2>2 DEF AuthTook, AuthGave, ClearTook
<1>9. ClearGave' = 0 /\ DecipherTook' = 0
  BY <1>7, <1>8 DEF ClearGave, DecipherTook
<1>10. StoredInOrder' /\ PassedInOrder' /\ ClearInOrder'
  BY <1>7, <1>8, <1>9 DEF StoredInOrder, PassedInOrder, ClearInOrder, Holds
<1>11. SourceOK' /\ HashOK' /\ EndPassed'
  <2>1. SourceOK'
    BY <1>6, <1>7 DEF SourceOK, OnCut
  <2>2. HashOK'
    BY <1>7 DEF HashOK
  <2>3. EndPassed'
    BY <1>7 DEF EndPassed
  <2>. QED
    BY <2>1, <2>2, <2>3
<1>12. DecipherOK' /\ WrittenOK'
  <2>1. DecipherOK'
    BY <1>7, <1>9 DEF DecipherOK
  <2>2. Len(temp') = 0 \/ temp' = NULL
    BY <1>7
  <2>. QED
    BY <1>7, <2>1, <2>2 DEF WrittenOK, Written
<1>. QED
  BY <1>10, <1>11, <1>12

\* The steps of the crypto thread.
LEMMA CryptoKeepsDecInv ==
  ASSUME TypeInv, DecInv, ~Encrypting, CryptoStep, StillNothing'
  PROVE  DecInv'
<1>. USE DEF Threads, Queues
<1>1. /\ Started /\ Crypto /\ Launched /\ ~TooSmall
      /\ pc \in [Threads \cup {"main"} -> Pcs] /\ hold \in [Threads -> Good \cup {NULL}]
      /\ queue \in [Queues -> Seq(Good)]
      /\ CryptoOut = "write"
  BY DEF CryptoStep, TypeInv, PcsTyped, HoldsTyped, QueuesTyped, Started, Launched, CryptoOut
<1>2. /\ UNCHANGED <<readVars, macVars, writeVars, status, file, running, valid, newFileSize>>
      /\ OthersKeep("crypto")
      /\ queue'["mac"] = queue["mac"]
      /\ pc["crypto"] # "exit" /\ pc'["main"] = pc["main"]
  BY <1>1 DEF CryptoStep, Crypto, CryptoStart, CryptoTurn, CryptoNothing, CryptoSeesDone,
              EncryptHeader, EncryptChunk, StripHeader, DecryptChunk, CryptoPut, CryptoDone,
              Goto, Go, Put, Keep, TakeIt, deque, flagVars, OthersKeep
<1>3. UNCHANGED FixedParts
  BY <1>2, FixedPartsFacts
<1>4. /\ pc["main"] \in {"bar", "join"} /\ pc'["main"] = pc["main"]
      /\ error' = "none" => error = "none"
      /\ Flowing' => Flowing /\ error' = error
  BY <1>1, <1>2 DEF OthersKeep, Started, Flowing, Going, KeepGoing, Launched, readVars
<1>5. Outcome'
  <2>1. Outcome
    BY DEF DecInv
  <2>2. pc'["main"] # "over"
    BY <1>4
  <2>. QED
    BY <1>2, <1>3, <1>4, <2>1, <2>2 DEF Outcome, Whole, SameBody, OthersKeep, writeVars, FixedParts
<1>6. Hashing'
  <2>1. Stored' = Stored
    BY <1>3 DEF Stored, FixedParts
  <2>2. Hashing
    BY DEF DecInv
  <2>. QED
    BY <1>2, <1>4, <2>1, <2>2 DEF Hashing, HeaderSeal, OthersKeep, macVars
<1>. SUFFICES ASSUME Flowing'
              PROVE  (/\ StoredInOrder /\ SourceOK /\ HashOK /\ EndPassed
                      /\ Writing => PassedInOrder /\ ClearInOrder /\ DecipherOK /\ WrittenOK)'
  BY <1>4, <1>5, <1>6 DEF DecInv
<1>7. /\ Flowing /\ KeepGoing /\ error' = error /\ error = "none"
      /\ StoredInOrder /\ SourceOK /\ HashOK /\ EndPassed
      /\ Writing => PassedInOrder /\ ClearInOrder /\ DecipherOK /\ WrittenOK
  BY <1>4 DEF DecInv, Flowing, Going, KeepGoing
<1>8. StoredInOrder' /\ SourceOK' /\ HashOK'
  <2>1. UNCHANGED <<ReadCut, ReadPut, AuthTook>>
    BY <1>2, <1>3 DEF ReadPut, ReadCut, CutsIn, AuthTook, HeldCount, OthersKeep, readVars, macVars, FixedParts
  <2>2. StoredInOrder'
    BY <1>2, <1>3, <1>7, <2>1 DEF StoredInOrder, Holds, FixedParts
  <2>3. SourceOK'
    BY <1>2, <1>3, <1>7, <2>1 DEF SourceOK, OnCut, OthersKeep, readVars, FixedParts
  <2>4. HashOK'
    BY <1>2, <1>3, <1>7 DEF HashOK, OthersKeep, macVars, FixedParts
  <2>. QED
    BY <2>2, <2>3, <2>4
<1>9. WrittenOK' <=> WrittenOK
  BY <1>2, <1>3 DEF WrittenOK, Written, SumTo, CutSize, OthersKeep, writeVars, FixedParts
<1>10. /\ ClearTook' = ClearTook /\ AuthGave' = AuthGave /\ Writing' = Writing
       /\ PassedItems' = PassedItems /\ ClearItems' = ClearItems /\ Cuts' = Cuts
       /\ Cuts \in Nat \ {0} /\ AuthGave \in Int
       /\ Len(queue["crypto"]) \in Nat /\ Len(queue["write"]) \in Nat
       /\ Writing => ClearTook \in Nat /\ ClearGave \in Nat
  <2>1. /\ PassedItems' = PassedItems /\ ClearItems' = ClearItems /\ Cuts' = Cuts
        /\ Cuts \in Nat \ {0} /\ digest \in Seq(Pieces) /\ temp \in Seq(Chunks) \cup {NULL}
    BY <1>1, <1>3, CutsFacts DEF FixedParts, TypeInv, MacTyped, WriteTyped
  <2>2. ClearTook' = ClearTook /\ Writing' = Writing
    BY <1>2 DEF ClearTook, HeldCount, Writing, OthersKeep, writeVars
  <2>3. AuthGave' = AuthGave /\ AuthGave \in Int
    BY <1>2, <2>1 DEF AuthGave, HeldCount, OthersKeep, macVars
  <2>4. Len(queue["crypto"]) \in Nat /\ Len(queue["write"]) \in Nat
    BY <1>1
  <2>5. ClearTook \in Nat
    BY <2>1 DEF ClearTook, HeldCount
  <2>. QED
    BY <2>1, <2>2, <2>3, <2>4, <2>5 DEF ClearGave
<1>11. ASSUME Fresh, TakeIt, pc["crypto"] = "take"
       PROVE  /\ hold["crypto"] = NULL /\ queue["crypto"] # <<>>
              /\ Taken = Head(queue["crypto"]) /\ Taken \in Good
              /\ queue'["crypto"] = Tail(queue["crypto"]) /\ queue'["write"] = queue["write"]
              /\ Len(queue["crypto"]) >= 1
              /\ Len(queue'["crypto"]) = Len(queue["crypto"]) - 1
              /\ \A i \in 1 .. Len(queue'["crypto"]) : queue'["crypto"][i] = queue["crypto"][i + 1]
              /\ queue["crypto"][1] = Taken
              /\ Writing => /\ Taken = PassedItems[DecipherTook]
                            /\ DecipherTook = IF header THEN 0 ELSE 1 + ClearGave
                            /\ Holds(queue'["crypto"], PassedItems, DecipherTook + 1)
  <2>1. /\ hold["crypto"] = NULL /\ Taken = front("crypto") /\ front("crypto") # NULL
        /\ queue' = [queue EXCEPT !["crypto"] = Tail(@)]
    BY <1>11 DEF Fresh, TakeIt, Taken, deque
  <2>2. queue["crypto"] # <<>> /\ Taken = Head(queue["crypto"]) /\ queue["crypto"] \in Seq(Good)
    BY <1>1, <2>1, FrontType
  <2>3. /\ queue'["crypto"] = Tail(queue["crypto"]) /\ queue'["write"] = queue["write"]
        /\ Len(queue["crypto"]) >= 1 /\ Len(Tail(queue["crypto"])) = Len(queue["crypto"]) - 1
        /\ \A i \in 1 .. Len(queue["crypto"]) - 1 : Tail(queue["crypto"])[i] = queue["crypto"][i + 1]
        /\ queue["crypto"][1] = Taken /\ Taken \in Good
    BY <1>1, <2>1, <2>2
  <2>4. ASSUME Writing
        PROVE  /\ Taken = PassedItems[DecipherTook]
               /\ DecipherTook = IF header THEN 0 ELSE 1 + ClearGave
               /\ Holds(queue'["crypto"], PassedItems, DecipherTook + 1)
    <3>1. DecipherTook = IF header THEN 0 ELSE 1 + ClearGave
      BY <1>10, <1>11, <2>1, <2>4 DEF DecipherTook, HeldCount
    <3>2. DecipherTook \in Int
      BY <1>10, <2>4, <3>1
    <3>3. Holds(queue["crypto"], PassedItems, DecipherTook)
      BY <1>7, <2>4 DEF PassedInOrder
    <3>4. /\ Head(queue["crypto"]) = PassedItems[DecipherTook]
          /\ Holds(Tail(queue["crypto"]), PassedItems, DecipherTook + 1)
      BY <2>2, <3>2, <3>3, HoldsTake
    <3>. QED
      BY <2>2, <2>3, <3>1, <3>4
  <2>. QED
    BY <2>1, <2>2, <2>3, <2>4
<1>12. SUFFICES /\ EndPassed'
                /\ Writing => PassedInOrder' /\ ClearInOrder' /\ DecipherOK'
  BY <1>7, <1>8, <1>9, <1>10
<1>. USE DEF HeldCount
<1>13. CASE CryptoStart \/ CryptoTurn \/ CryptoNothing
  <2>1. UNCHANGED <<queue, hold, cryptoVars>> /\ pc["crypto"] \in {"start", "loop", "take"}
        /\ pc'["crypto"] \in {"loop", "take"}
    BY <1>1, <1>7, <1>13, PipelineAssumption DEF CryptoStart, CryptoTurn, CryptoNothing, Goto, Go
  <2>2. EndPassed'
    BY <1>2, <1>7, <2>1 DEF EndPassed, OthersKeep
  <2>3. ClearGave' = ClearGave
    BY <1>10, <2>1 DEF ClearGave
  <2>4. DecipherTook' = DecipherTook
    BY <1>10, <2>1, <2>3 DEF DecipherTook, cryptoVars
  <2>5. Writing => PassedInOrder' /\ ClearInOrder'
    BY <1>7, <1>10, <2>1, <2>4 DEF PassedInOrder, ClearInOrder
  <2>6. Writing => DecipherOK'
    BY <1>7, <1>10, <2>1, <2>3 DEF DecipherOK, LastBlock, cryptoVars
  <2>. QED
    BY <2>2, <2>5, <2>6
<1>14. CASE CryptoSeesDone
  <2>1. /\ UNCHANGED <<hold, cryptoVars>> /\ pc["crypto"] = "take" /\ pc'["crypto"] = "flush"
        /\ Taken # NULL /\ Taken.action = "DONE" /\ TakeIt
    BY <1>1, <1>14 DEF CryptoSeesDone, Goto
  <2>2. Fresh
    BY <1>7, <2>1 DEF EndPassed, Fresh, Taken
  <2>3. /\ hold["crypto"] = NULL
        /\ queue'["write"] = queue["write"] /\ Len(queue["crypto"]) >= 1
        /\ Len(queue'["crypto"]) = Len(queue["crypto"]) - 1
        /\ queue["crypto"][1] = Taken
    BY <1>11, <2>1, <2>2
  <2>4. EndPassed'
    <3>1. pc["mac"] = "exit"
      <4>1. 1 \in 1 .. Len(queue["crypto"])
        BY <1>10, <2>3
      <4>. QED
        BY <1>7, <2>1, <2>3, <4>1 DEF EndPassed
    <3>. QED
      BY <1>2, <2>1, <2>3, <3>1 DEF EndPassed, OthersKeep
  <2>5. ASSUME Writing PROVE PassedInOrder' /\ ClearInOrder' /\ DecipherOK'
    <3>1. /\ Taken = PassedItems[DecipherTook]
          /\ DecipherTook = IF header THEN 0 ELSE 1 + ClearGave
          /\ Holds(queue'["crypto"], PassedItems, DecipherTook + 1)
          /\ PassedInOrder /\ ClearInOrder /\ DecipherOK
      BY <1>7, <1>11, <2>1, <2>2, <2>5
    <3>2. ~(DecipherTook \in 0 .. Cuts)
      <4>. SUFFICES ASSUME DecipherTook \in 0 .. Cuts PROVE FALSE
        OBVIOUS
      <4>1. PassedItems[DecipherTook].action = "WRITE"
        BY <1>1, StoredItem
      <4>. QED
        BY <2>1, <3>1, <4>1
    <3>3. ~header /\ ClearGave = Cuts /\ DecipherTook = Cuts + 1
      <4>1. ClearGave <= Cuts
        BY <1>10, <2>1, <2>3, <2>5, <3>1 DEF DecipherOK
      <4>. QED
        BY <1>10, <2>5, <3>1, <3>2, <4>1
    <3>4. ClearGave' = ClearGave /\ DecipherTook' = Cuts + 2 /\ header' = header
      BY <1>10, <2>1, <2>3 DEF ClearGave, DecipherTook, cryptoVars
    <3>5. PassedInOrder'
      <4>1. Len(queue["crypto"]) = AuthGave - (Cuts + 1)
        BY <3>1, <3>3 DEF PassedInOrder
      <4>2. Len(queue'["crypto"]) = AuthGave' - DecipherTook'
        BY <1>10, <2>3, <3>4, <4>1
      <4>3. Holds(queue'["crypto"], PassedItems', DecipherTook')
        BY <1>10, <3>1, <3>3, <3>4
      <4>. QED
        BY <4>2, <4>3 DEF PassedInOrder
    <3>6. ClearInOrder'
      BY <1>10, <2>3, <3>1 DEF ClearInOrder
    <3>7. DecipherOK'
      BY <1>10, <2>1, <2>3, <3>3, <3>4 DEF DecipherOK
    <3>. QED
      BY <3>5, <3>6, <3>7
  <2>. QED
    BY <2>4, <2>5
<1>15. CASE StripHeader
  <2>1. /\ pc["crypto"] = "take" /\ pc'["crypto"] = "loop" /\ header /\ header' = FALSE
        /\ Taken # NULL /\ Taken.action # "DONE" /\ TakeIt
        /\ chain' = ChainOf(Taken) /\ UNCHANGED <<hold, even>>
    BY <1>1, <1>15 DEF StripHeader, Goto
  <2>2. EndPassed'
    <3>1. CASE Fresh
      <4>1. /\ Len(queue["crypto"]) >= 1
            /\ Len(queue'["crypto"]) = Len(queue["crypto"]) - 1
            /\ \A i \in 1 .. Len(queue'["crypto"]) : queue'["crypto"][i] = queue["crypto"][i + 1]
        BY <1>11, <2>1, <3>1
      <4>2. \A i \in 1 .. Len(queue'["crypto"]) : i + 1 \in 1 .. Len(queue["crypto"])
        BY <1>10, <4>1
      <4>. QED
        BY <1>2, <1>7, <2>1, <4>1, <4>2 DEF EndPassed, OthersKeep
    <3>2. CASE ~Fresh
      BY <1>2, <1>7, <2>1, <3>2 DEF EndPassed, OthersKeep, TakeIt
    <3>. QED
      BY <3>1, <3>2
  <2>3. ASSUME Writing PROVE PassedInOrder' /\ ClearInOrder' /\ DecipherOK'
    <3>1. PassedInOrder /\ ClearInOrder /\ DecipherOK
      BY <1>7, <2>3
    <3>2. ClearGave = 0 /\ hold["crypto"] = NULL /\ even /\ Fresh
      BY <2>1, <3>1 DEF DecipherOK, Fresh
    <3>3. /\ Taken = PassedItems[0] /\ DecipherTook = 0
          /\ Holds(queue'["crypto"], PassedItems, 1)
          /\ queue'["write"] = queue["write"]
          /\ Len(queue'["crypto"]) = Len(queue["crypto"]) - 1
      <4>1. DecipherTook = 0 /\ 0 + 1 = 1
        BY <1>11, <2>1, <2>3, <3>2
      <4>. QED
        BY <1>11, <2>1, <2>3, <3>2, <4>1
    <3>4. ClearGave' = 0 /\ DecipherTook' = 1
      BY <1>10, <2>1, <3>2, <3>3 DEF ClearGave, DecipherTook
    <3>5. PassedInOrder'
      <4>1. Len(queue'["crypto"]) = AuthGave' - DecipherTook'
        BY <1>10, <3>1, <3>3, <3>4 DEF PassedInOrder
      <4>. QED
        BY <1>10, <3>3, <3>4, <4>1 DEF PassedInOrder
    <3>6. ClearInOrder'
      BY <1>10, <3>1, <3>3 DEF ClearInOrder
    <3>7. DecipherOK'
      BY <1>10, <2>1, <3>2, <3>3, <3>4 DEF DecipherOK, LastBlock
    <3>. QED
      BY <3>5, <3>6, <3>7
  <2>. QED
    BY <2>2, <2>3
<1>16. CASE DecryptChunk /\ Fresh
  <2>1. /\ pc["crypto"] = "take" /\ pc'["crypto"] = "put" /\ ~header /\ header' = header
        /\ Taken # NULL /\ Taken.action # "DONE" /\ TakeIt /\ worked' = TRUE
        /\ hold' = [hold EXCEPT !["crypto"] = Decipher(Taken, LastBlock)]
        /\ LastBlock' = ChainOf(Taken)
    <3>1. /\ pc["crypto"] = "take" /\ pc'["crypto"] = "put" /\ ~header /\ header' = header
          /\ Taken # NULL /\ Taken.action # "DONE" /\ TakeIt /\ worked' = TRUE
          /\ hold' = [hold EXCEPT !["crypto"] = Decipher(Taken, IF even THEN chain ELSE chainOdd)]
          /\ chainOdd' = IF even THEN ChainOf(Taken) ELSE chainOdd
          /\ chain' = IF even THEN chain ELSE ChainOf(Taken)
          /\ even' = ~even
      BY <1>1, <1>16 DEF DecryptChunk, Goto, Keep
    <3>2. even \in BOOLEAN
      BY DEF TypeInv, CryptoTyped
    <3>. QED
      BY <3>1, <3>2 DEF LastBlock
  <2>2. /\ hold["crypto"] = NULL /\ Taken \in Good
        /\ queue'["write"] = queue["write"] /\ Len(queue["crypto"]) >= 1
        /\ Len(queue'["crypto"]) = Len(queue["crypto"]) - 1
        /\ \A i \in 1 .. Len(queue'["crypto"]) : queue'["crypto"][i] = queue["crypto"][i + 1]
    BY <1>11, <1>16, <2>1
  <2>3. hold'["crypto"] = Decipher(Taken, LastBlock) /\ hold'["crypto"] # NULL
        /\ hold'["crypto"].action # "DONE"
    <3>1. hold'["crypto"] = Decipher(Taken, LastBlock)
      BY <1>1, <2>1
    <3>2. hold'["crypto"] # NULL
      BY <2>1, CryptoTypes DEF TypeInv, HoldsTyped
    <3>3. Taken \in Chunks
      BY <2>2, GoodFacts
    <3>. DEFINE seal == IF Taken.seal = <<LastBlock>> THEN <<>> ELSE <<Garbled>>
    <3>4. Decipher(Taken, LastBlock) = [Taken EXCEPT !.seal = seal]
      BY DEF Decipher
    <3>. HIDE DEF seal
    <3>5. [Taken EXCEPT !.seal = seal].action = Taken.action
      BY <3>3 DEF Chunks
    <3>. QED
      BY <2>1, <3>1, <3>2, <3>4, <3>5
  <2>4. EndPassed'
    <3>1. \A i \in 1 .. Len(queue'["crypto"]) : i + 1 \in 1 .. Len(queue["crypto"])
      BY <1>10, <2>2
    <3>. QED
      BY <1>2, <1>7, <2>1, <2>2, <2>3, <3>1 DEF EndPassed, OthersKeep
  <2>5. ASSUME Writing PROVE PassedInOrder' /\ ClearInOrder' /\ DecipherOK'
    <3>. DEFINE g == ClearGave + 1
    <3>1. /\ PassedInOrder /\ ClearInOrder /\ DecipherOK
          /\ Taken = PassedItems[DecipherTook] /\ DecipherTook = 1 + ClearGave
          /\ Holds(queue'["crypto"], PassedItems, DecipherTook + 1)
      BY <1>7, <1>11, <1>16, <2>1, <2>5
    <3>2. ClearGave \in Nat /\ ClearGave <= Cuts /\ LastBlock = ChainOf(PassedItems[ClearGave])
      <4>1. ClearGave + HeldCount("crypto") = ClearGave
        BY <1>10, <2>2, <2>5
      <4>. QED
        BY <1>10, <2>1, <2>5, <3>1, <4>1 DEF DecipherOK
    <3>3. DecipherTook = g /\ g \in 1 .. Cuts /\ g - 1 = ClearGave
      <4>1. DecipherTook = g /\ g \in Nat \ {0}
        BY <1>10, <3>1, <3>2
      <4>2. g > Cuts => PassedItems[g] = DONE
        BY <1>1, <4>1, EndItems
      <4>3. ~(g > Cuts)
        BY <2>1, <3>1, <4>1, <4>2, DoneType
      <4>. QED
        BY <1>10, <3>2, <4>1, <4>3
    <3>4. hold'["crypto"] = ClearItems[g] /\ LastBlock' = ChainOf(PassedItems[g])
      BY <1>1, <2>1, <2>3, <3>1, <3>2, <3>3, ClearItem
    <3>5. ClearGave' = ClearGave
      BY <1>10, <2>2 DEF ClearGave
    <3>6. DecipherTook' = DecipherTook + 1
      BY <1>10, <2>1, <2>3, <3>1, <3>2, <3>5 DEF DecipherTook
    <3>7. PassedInOrder'
      <4>1. DecipherTook \in Int /\ Len(queue["crypto"]) = AuthGave - DecipherTook
        BY <3>1, <3>2 DEF PassedInOrder
      <4>2. Len(queue'["crypto"]) = AuthGave' - DecipherTook'
        BY <1>10, <2>2, <3>6, <4>1
      <4>. QED
        BY <1>10, <3>1, <3>6, <4>2 DEF PassedInOrder
    <3>8. ClearInOrder'
      BY <1>10, <2>2, <3>1 DEF ClearInOrder
    <3>9. DecipherOK'
      <4>1. ClearGave' + HeldCount("crypto")' = g /\ ClearGave' + 1 = g
        BY <2>3, <3>5
      <4>. HIDE DEF g, HeldCount
      <4>. QED
        BY <1>10, <2>1, <2>3, <3>3, <3>4, <4>1 DEF DecipherOK
    <3>. QED
      BY <3>7, <3>8, <3>9
  <2>. QED
    BY <2>4, <2>5
<1>17. CASE DecryptChunk /\ ~Fresh
  <2>1. /\ pc["crypto"] = "take" /\ pc'["crypto"] = "put" /\ ~header /\ header' = header
        /\ hold["crypto"] # NULL /\ Taken = hold["crypto"] /\ worked' = TRUE
        /\ Taken.action # "DONE"
        /\ UNCHANGED queue
        /\ worked => UNCHANGED <<hold, chain, chainOdd, even>>
        /\ ~worked => hold' = [hold EXCEPT !["crypto"] = Decipher(Taken, IF even THEN chain ELSE chainOdd)]
    BY <1>1, <1>17 DEF DecryptChunk, Goto, Fresh, Taken, TakeIt, Keep
  <2>2. EndPassed'
    <3>1. hold'["crypto"].action # "DONE"
      <4>1. CASE worked
        BY <2>1, <4>1
      <4>2. CASE ~worked
        <5>. DEFINE x == IF even THEN chain ELSE chainOdd
                    seal == IF Taken.seal = <<x>> THEN <<>> ELSE <<Garbled>>
        <5>1. Taken \in Chunks
          BY <1>1, <2>1, GoodFacts
        <5>2. hold'["crypto"] = Decipher(Taken, x)
          BY <1>1, <2>1, <4>2
        <5>3. Decipher(Taken, x) = [Taken EXCEPT !.seal = seal]
          BY DEF Decipher
        <5>. HIDE DEF seal, x
        <5>4. [Taken EXCEPT !.seal = seal].action = Taken.action
          BY <5>1 DEF Chunks
        <5>. QED
          BY <2>1, <5>2, <5>3, <5>4
      <4>. QED
        BY <4>1, <4>2
    <3>. QED
      BY <1>2, <1>7, <2>1, <3>1 DEF EndPassed, OthersKeep
  <2>3. ASSUME Writing PROVE PassedInOrder' /\ ClearInOrder' /\ DecipherOK'
    <3>1. PassedInOrder /\ ClearInOrder /\ DecipherOK
      BY <1>7, <2>3
    <3>2. UNCHANGED <<hold, chain, chainOdd, even>>
      BY <2>1, <3>1 DEF DecipherOK
    <3>3. ClearGave' = ClearGave
      BY <1>10, <2>1 DEF ClearGave
    <3>4. DecipherTook' = DecipherTook
      BY <1>10, <2>1, <3>2, <3>3 DEF DecipherTook
    <3>5. PassedInOrder' /\ ClearInOrder'
      BY <1>10, <2>1, <3>1, <3>4 DEF PassedInOrder, ClearInOrder
    <3>6. DecipherOK'
      BY <1>10, <2>1, <3>1, <3>2, <3>3 DEF DecipherOK, LastBlock
    <3>. QED
      BY <3>5, <3>6
  <2>. QED
    BY <2>2, <2>3
<1>18. CASE CryptoPut
  <2>1. /\ pc["crypto"] = "put" /\ pc'["crypto"] = "loop" /\ UNCHANGED cryptoVars
        /\ hold["crypto"] # NULL
    BY <1>1, <1>18 DEF CryptoPut, Goto, TypeInv, HoldsTyped
  <2>2. CASE UNCHANGED <<queue, hold>>
    <3>1. EndPassed'
      BY <1>2, <1>7, <2>1, <2>2 DEF EndPassed, OthersKeep
    <3>2. ClearGave' = ClearGave
      BY <1>10, <2>2 DEF ClearGave
    <3>3. DecipherTook' = DecipherTook
      BY <1>10, <2>1, <2>2, <3>2 DEF DecipherTook, cryptoVars
    <3>4. Writing => PassedInOrder' /\ ClearInOrder'
      BY <1>7, <1>10, <2>2, <3>3 DEF PassedInOrder, ClearInOrder
    <3>5. Writing => DecipherOK'
      BY <1>7, <1>10, <2>1, <2>2, <3>2 DEF DecipherOK, LastBlock, cryptoVars
    <3>. QED
      BY <3>1, <3>4, <3>5
  <2>3. CASE ~UNCHANGED <<queue, hold>>
    <3>1. /\ queue' = [queue EXCEPT !["write"] = Append(@, hold["crypto"])]
          /\ hold'["crypto"] = NULL
      BY <1>1, <1>18, <2>3 DEF CryptoPut, Put, Keep
    <3>2. /\ queue'["write"] = Append(queue["write"], hold["crypto"])
          /\ queue'["crypto"] = queue["crypto"] /\ hold["crypto"] \in Good
          /\ Len(queue'["write"]) = Len(queue["write"]) + 1
      BY <1>1, <2>1, <3>1
    <3>3. EndPassed'
      BY <1>2, <1>7, <2>1, <3>1, <3>2 DEF EndPassed, OthersKeep
    <3>4. ASSUME Writing PROVE PassedInOrder' /\ ClearInOrder' /\ DecipherOK'
      <4>1. /\ PassedInOrder /\ ClearInOrder /\ DecipherOK
            /\ hold["crypto"] = ClearItems[ClearGave + 1]
        BY <1>7, <2>1, <3>4 DEF DecipherOK
      <4>2. ClearGave' = ClearGave + 1
        BY <1>10, <3>2, <3>4 DEF ClearGave
      <4>3. DecipherTook' = DecipherTook
        <5>1. pc["crypto"] \notin {"flush", "exit"} /\ pc'["crypto"] \notin {"flush", "exit"} /\ header' = header
          BY <2>1 DEF cryptoVars
        <5>2. 1 + ClearGave + 1 = 1 + ClearGave' + 0
          BY <1>10, <3>4, <4>2
        <5>. QED
          BY <1>10, <2>1, <3>1, <5>1, <5>2 DEF DecipherTook
      <4>4. PassedInOrder'
        BY <1>10, <3>2, <4>1, <4>3 DEF PassedInOrder
      <4>5. ClearInOrder'
        <5>1. ClearTook + 1 \in Int /\ (ClearTook + 1) + Len(queue["write"]) = ClearGave + 1
          BY <1>10, <3>4 DEF ClearGave
        <5>2. hold["crypto"] = ClearItems[(ClearTook + 1) + Len(queue["write"])]
          BY <4>1, <5>1
        <5>3. queue["write"] \in Seq(Good) /\ Holds(queue["write"], ClearItems, ClearTook + 1)
          BY <1>1, <4>1 DEF ClearInOrder
        <5>4. Holds(Append(queue["write"], hold["crypto"]), ClearItems, ClearTook + 1)
          BY <3>2, <5>1, <5>2, <5>3, HoldsPut
        <5>. QED
          BY <1>10, <3>2, <5>4 DEF ClearInOrder
      <4>6. DecipherOK'
        <5>1. ClearGave + HeldCount("crypto") = ClearGave' + HeldCount("crypto")'
          BY <1>10, <2>1, <3>1, <3>4, <4>2
        <5>2. LastBlock' = LastBlock /\ header' = header
          BY <2>1 DEF LastBlock, cryptoVars
        <5>3. ~header
          BY <2>1, <4>1 DEF DecipherOK
        <5>. HIDE DEF HeldCount
        <5>. QED
          BY <1>10, <2>1, <3>1, <4>1, <5>1, <5>2, <5>3 DEF DecipherOK
      <4>. QED
        BY <4>4, <4>5, <4>6
    <3>. QED
      BY <3>3, <3>4
  <2>. QED
    BY <2>2, <2>3
<1>19. CASE CryptoDone
  <2>1. /\ pc["crypto"] = "flush" /\ pc'["crypto"] = "exit" /\ UNCHANGED <<hold, cryptoVars>>
        /\ queue' = [queue EXCEPT !["write"] = Append(@, DONE)]
    BY <1>1, <1>19 DEF CryptoDone, Goto, Put
  <2>2. /\ queue'["write"] = Append(queue["write"], DONE) /\ queue'["crypto"] = queue["crypto"]
        /\ Len(queue'["write"]) = Len(queue["write"]) + 1
    BY <1>1, <2>1, DoneType
  <2>3. EndPassed'
    BY <1>2, <1>7, <2>1, <2>2 DEF EndPassed, OthersKeep
  <2>4. ASSUME Writing PROVE PassedInOrder' /\ ClearInOrder' /\ DecipherOK'
    <3>1. /\ PassedInOrder /\ ClearInOrder /\ DecipherOK
          /\ ClearGave = Cuts /\ hold["crypto"] = NULL /\ ~header
      BY <1>7, <2>1, <2>4 DEF DecipherOK
    <3>2. ClearGave' = Cuts + 1
      BY <1>10, <2>2, <2>4, <3>1 DEF ClearGave
    <3>3. DecipherTook' = DecipherTook
      BY <1>10, <2>1 DEF DecipherTook
    <3>4. PassedInOrder'
      BY <1>10, <2>2, <3>1, <3>3 DEF PassedInOrder
    <3>5. ClearInOrder'
      <4>1. ClearTook + 1 \in Int /\ (ClearTook + 1) + Len(queue["write"]) = Cuts + 1
        BY <1>10, <2>4, <3>1 DEF ClearGave
      <4>2. DONE = ClearItems[(ClearTook + 1) + Len(queue["write"])]
        <5>1. Cuts + 1 \in Nat /\ Cuts + 1 > Cuts
          BY <1>10
        <5>. QED
          BY <1>1, <4>1, <5>1, EndItems
      <4>3. queue["write"] \in Seq(Good) /\ Holds(queue["write"], ClearItems, ClearTook + 1)
        BY <1>1, <3>1 DEF ClearInOrder
      <4>4. Holds(Append(queue["write"], DONE), ClearItems, ClearTook + 1)
        BY <4>1, <4>2, <4>3, HoldsPut, DoneType
      <4>. QED
        BY <1>10, <2>2, <4>4 DEF ClearInOrder
    <3>6. DecipherOK'
      BY <1>10, <2>1, <3>1, <3>2 DEF DecipherOK, cryptoVars
    <3>. QED
      BY <3>4, <3>5, <3>6
  <2>. QED
    BY <2>3, <2>4
<1>20. ~EncryptHeader /\ ~EncryptChunk
  BY DEF EncryptHeader, EncryptChunk
<1>. QED
  BY <1>1, <1>13, <1>14, <1>15, <1>16, <1>17, <1>18, <1>19, <1>20 DEF Crypto

\* The steps of the MAC thread.  It takes what the read thread puts and gives
\* the crypto thread what passed, and the end only after the verdict.
LEMMA MacKeepsDecInv ==
  ASSUME TypeInv, DecInv, ~Encrypting, MacStep, StillNothing'
  PROVE  DecInv'
<1>. USE DEF Threads, Queues
<1>1. /\ Started /\ Launched /\ ~TooSmall
      /\ pc \in [Threads \cup {"main"} -> Pcs] /\ hold \in [Threads -> Good \cup {NULL}]
      /\ queue \in [Queues -> Seq(Good)]
      /\ digest \in Seq(Pieces)
      /\ MacOut = "crypto"
      /\ pc["mac"] \in {"start", "auth", "take", "hash", "pass", "final", "stored",
                        "fetch", "verdict", "flush", "exit"}
  BY DEF MacStep, TypeInv, PcsTyped, HoldsTyped, QueuesTyped, MacTyped, MacPcs, Started, Launched, MacOut
<1>2. \/ MacStart \/ AuthTurn \/ AuthTake \/ AuthHeld \/ AuthHeaderBad \/ AuthHash \/ AuthPass
      \/ AuthFinal \/ AuthStored \/ AuthFetch \/ AuthVerdict \/ MacDone
  BY <1>1 DEF MacStep, Mac, GenerateCond, GenerateGet, GenerateIdle, GeneratePut, GenerateAppend, Goto
<1>3. /\ UNCHANGED <<readVars, cryptoVars, writeVars, status, file, running>>
      /\ OthersKeep("mac")
      /\ queue'["write"] = queue["write"]
      /\ pc["mac"] # "exit" /\ pc'["main"] = pc["main"]
      /\ valid => valid'
  BY <1>1, <1>2 DEF MacStep, MacStart, AuthTurn, AuthTake, AuthHeld, AuthHeaderBad, AuthHash, AuthPass,
              AuthFinal, AuthStored, AuthFetch, AuthVerdict, MacDone,
              Goto, Go, Put, Keep, deque, flagVars, OthersKeep
<1>4. UNCHANGED FixedParts /\ Stored' = Stored
  <2>1. UNCHANGED FixedParts
    BY <1>3, FixedPartsFacts
  <2>. QED
    BY <2>1 DEF Stored, FixedParts
<1>5. /\ pc["main"] \in {"bar", "join"}
      /\ error' = "none" => error = "none"
      /\ Flowing' => Flowing /\ error' = error
  BY <1>1, <1>3 DEF OthersKeep, Started, Flowing, Going, KeepGoing, Launched, readVars
<1>6. Outcome'
  <2>1. Outcome
    BY DEF DecInv
  <2>2. pc'["main"] # "over"
    BY <1>3, <1>5
  <2>. QED
    BY <1>3, <1>4, <1>5, <2>1, <2>2 DEF Outcome, Whole, SameBody, OthersKeep, writeVars, FixedParts
<1>7. /\ Cuts' = Cuts /\ StoredItems' = StoredItems /\ PassedItems' = PassedItems
      /\ Cuts \in Nat \ {0} /\ Len(digest) \in Nat
      /\ Len(queue["mac"]) \in Nat /\ Len(queue["crypto"]) \in Nat
      /\ ReadPut' = ReadPut /\ ReadPut \in Int
      /\ DecipherTook' = DecipherTook /\ DecipherTook \in Int
      /\ ClearTook' = ClearTook /\ ClearGave' = ClearGave
      /\ Writing' = Writing
  <2>1. /\ Cuts' = Cuts /\ StoredItems' = StoredItems /\ PassedItems' = PassedItems
        /\ Cuts \in Nat \ {0} /\ Len(digest) \in Nat
        /\ Len(queue["mac"]) \in Nat /\ Len(queue["crypto"]) \in Nat
    <3>1. Cuts \in Nat \ {0}
      BY ONLY TypeInv, ~Encrypting, <1>1, CutsFacts
    <3>2. Cuts' = Cuts /\ StoredItems' = StoredItems /\ PassedItems' = PassedItems
      BY <1>4 DEF FixedParts
    <3>. QED
      BY <1>1, <3>1, <3>2
  <2>2. ReadCut' = ReadCut /\ ReadCut \in Int
    BY <1>1, <1>3, <1>4, ReadCutRange DEF ReadCut, CutsIn, readVars, FixedParts
  <2>3. ReadPut' = ReadPut /\ ReadPut \in Int
    BY <1>3, <2>1, <2>2 DEF ReadPut, HeldCount, OthersKeep
  <2>4. ClearTook' = ClearTook /\ ClearGave' = ClearGave /\ Writing' = Writing
    BY <1>3 DEF ClearTook, ClearGave, HeldCount, Writing, OthersKeep, writeVars
  <2>5. DecipherTook' = DecipherTook
    BY <1>3, <2>1, <2>4 DEF DecipherTook, HeldCount, OthersKeep, cryptoVars
  <2>6. DecipherTook \in Int
    <3>1. temp \in Seq(Chunks) \cup {NULL} /\ Len(queue["write"]) \in Nat
      BY <1>1 DEF TypeInv, WriteTyped
    <3>2. ClearTook \in Int
      BY <3>1 DEF ClearTook, HeldCount
    <3>3. ClearGave \in Int
      BY <3>1, <3>2 DEF ClearGave
    <3>. QED
      BY <2>1, <3>3 DEF DecipherTook, HeldCount
  <2>. QED
    BY <2>1, <2>2, <2>3, <2>4, <2>5, <2>6
<1>8. Hashing
  BY DEF DecInv
<1>9. Flowing => /\ StoredInOrder /\ SourceOK /\ HashOK /\ EndPassed
                 /\ Writing => PassedInOrder /\ ClearInOrder /\ DecipherOK /\ WrittenOK
  BY DEF DecInv
<1>10. ASSUME Hashing',
              Flowing' => /\ StoredInOrder' /\ HashOK' /\ EndPassed'
                          /\ Writing => PassedInOrder'
       PROVE  DecInv'
  <2>. SUFFICES ASSUME Flowing'
                PROVE  SourceOK' /\ (Writing => ClearInOrder' /\ DecipherOK' /\ WrittenOK')
    BY <1>3, <1>5, <1>6, <1>7, <1>10 DEF DecInv
  <2>1. SourceOK /\ (Writing => ClearInOrder /\ DecipherOK /\ WrittenOK)
    BY <1>5, <1>9
  <2>2. SourceOK'
    BY <1>3, <1>4, <2>1 DEF SourceOK, OnCut, ReadCut, CutsIn, OthersKeep, readVars, FixedParts
  <2>3. Writing => ClearInOrder'
    BY <1>3, <1>4, <1>7, <2>1 DEF ClearInOrder, Holds, FixedParts
  <2>4. Writing => DecipherOK'
    BY <1>3, <1>4, <1>7, <2>1 DEF DecipherOK, LastBlock, HeldCount, OthersKeep, cryptoVars, FixedParts
  <2>5. Writing => WrittenOK'
    BY <1>3, <1>4, <2>1 DEF WrittenOK, Written, SumTo, CutSize, OthersKeep, writeVars, FixedParts
  <2>. QED
    BY <2>2, <2>3, <2>4, <2>5
<1>11. ASSUME queue["mac"] # <<>>, deque("mac"), front("mac") # NULL
       PROVE  /\ queue'["mac"] = Tail(queue["mac"]) /\ queue'["crypto"] = queue["crypto"]
              /\ front("mac") = Head(queue["mac"]) /\ front("mac") \in Good
              /\ front("mac") \in Stored /\ queue'["mac"] \in Seq(Stored)
              /\ Len(queue'["mac"]) = Len(queue["mac"]) - 1
              /\ Flowing => /\ front("mac") = StoredItems[AuthTook]
                            /\ Holds(queue'["mac"], StoredItems, AuthTook + 1)
  <2>1. queue["mac"] \in Seq(Good) /\ queue["mac"] \in Seq(Stored)
    BY <1>1, <1>8 DEF Hashing
  <2>2. queue' = [queue EXCEPT !["mac"] = Tail(@)]
    BY <1>11 DEF deque
  <2>3. queue'["mac"] = Tail(queue["mac"]) /\ queue'["crypto"] = queue["crypto"]
    BY <1>1, <2>2
  <2>4. front("mac") = Head(queue["mac"]) /\ front("mac") \in Good
    BY <1>11, FrontType
  <2>5. Head(queue["mac"]) \in Stored /\ Tail(queue["mac"]) \in Seq(Stored)
    BY <1>11, <2>1
  <2>6. Len(Tail(queue["mac"])) = Len(queue["mac"]) - 1
    BY <1>11, <2>1
  <2>7. ASSUME Flowing
        PROVE  /\ Head(queue["mac"]) = StoredItems[AuthTook]
               /\ Holds(Tail(queue["mac"]), StoredItems, AuthTook + 1)
    <3>1. AuthTook \in Int
      BY <1>7 DEF AuthTook
    <3>2. Holds(queue["mac"], StoredItems, AuthTook)
      BY <1>9, <2>7 DEF StoredInOrder
    <3>. QED
      BY <1>11, <2>1, <3>1, <3>2, HoldsTake
  <2>. QED
    BY <2>3, <2>4, <2>5, <2>6, <2>7
<1>12. ASSUME NEW c \in Good, queue' = [queue EXCEPT !["crypto"] = Append(@, c)]
       PROVE  /\ queue'["mac"] = queue["mac"]
              /\ queue'["crypto"] = Append(queue["crypto"], c)
              /\ Len(queue'["crypto"]) = Len(queue["crypto"]) + 1
              /\ PassedInOrder /\ c = PassedItems[AuthGave] /\ AuthGave' = AuthGave + 1 /\ AuthGave \in Int
                   => PassedInOrder'
  <2>1. /\ queue'["mac"] = queue["mac"]
        /\ queue'["crypto"] = Append(queue["crypto"], c)
        /\ Len(queue'["crypto"]) = Len(queue["crypto"]) + 1
    BY <1>1, <1>12
  <2>2. ASSUME PassedInOrder, c = PassedItems[AuthGave], AuthGave' = AuthGave + 1, AuthGave \in Int
        PROVE  PassedInOrder'
    <3>1. Len(queue["crypto"]) = AuthGave - DecipherTook /\ Holds(queue["crypto"], PassedItems, DecipherTook)
      BY <2>2 DEF PassedInOrder
    <3>2. Len(queue'["crypto"]) = AuthGave' - DecipherTook'
      BY <1>7, <2>1, <2>2, <3>1
    <3>3. AuthGave = DecipherTook + Len(queue["crypto"])
      BY <1>7, <2>2, <3>1
    <3>4. c = PassedItems[DecipherTook + Len(queue["crypto"])] /\ queue["crypto"] \in Seq(Good)
      BY <1>1, <2>2, <3>3
    <3>5. Holds(queue'["crypto"], PassedItems, DecipherTook)
      BY <1>7, <1>12, <2>1, <3>1, <3>4, HoldsPut
    <3>. QED
      BY <1>7, <3>2, <3>5 DEF PassedInOrder
  <2>. QED
    BY <2>1, <2>2
<1>. USE DEF HeldCount
<1>13. CASE MacStart \/ AuthTurn \/ AuthHeld \/ AuthStored
  <2>1. /\ UNCHANGED <<queue, hold, digest, macHeader, flagVars>>
        /\ pc["mac"] = "start" => pc'["mac"] = "auth"
        /\ pc["mac"] = "auth" => pc'["mac"] = IF KeepGoing THEN "take" ELSE "final"
        /\ pc["mac"] = "take" => pc'["mac"] = "pass" /\ hold["mac"] # NULL
        /\ pc["mac"] = "stored" => pc'["mac"] = IF KeepGoing THEN "fetch" ELSE "verdict"
        /\ pc["mac"] \in {"start", "auth", "take", "stored"}
    BY <1>1, <1>13 DEF MacStart, AuthTurn, AuthHeld, AuthStored, Goto, macVars, Held
  <2>2. Flowing => pc'["mac"] \in {"auth", "take", "pass", "fetch"} /\ KeepGoing
    BY <2>1 DEF Flowing, Going
  <2>3. Hashing'
    <3>1. pc'["mac"] = "fetch" => digest # <<>> \/ (pc["read"] = "exit" /\ queue["mac"] = <<>>)
      <4>. SUFFICES ASSUME pc'["mac"] = "fetch"
                    PROVE  digest # <<>> \/ (pc["read"] = "exit" /\ queue["mac"] = <<>>)
        OBVIOUS
      <4>1. pc["mac"] = "stored" /\ Going
        BY <1>1, <2>1 DEF Going
      <4>2. CASE origFileSize = 0
        BY <4>1, <4>2 DEF DecInv, StillNothing, NothingCame
      <4>3. CASE origFileSize # 0
        <5>1. Len(digest) = Cuts + 1
          BY <1>9, <4>1, <4>3 DEF HashOK, Flowing
        <5>2. Len(<<>>) = 0
          OBVIOUS
        <5>. QED
          BY <1>7, <5>1, <5>2
      <4>. QED
        BY <4>2, <4>3
    <3>2. /\ pc'["mac"] \in {"stored", "fetch", "verdict"} => hold["mac"] = NULL
          /\ pc'["mac"] \notin {"hash", "flush", "exit"}
      BY <1>8, <2>1 DEF Hashing
    <3>. QED
      BY <1>3, <1>4, <1>8, <2>1, <3>1, <3>2 DEF Hashing, HeaderSeal, OthersKeep, flagVars
  <2>4. ASSUME Flowing' PROVE StoredInOrder' /\ HashOK' /\ EndPassed' /\ (Writing => PassedInOrder')
    <3>1. Flowing /\ StoredInOrder /\ HashOK /\ EndPassed /\ (Writing => PassedInOrder)
          /\ pc'["mac"] \in {"auth", "take", "pass", "fetch"}
      BY <1>5, <1>9, <2>2, <2>4
    <3>2. AuthTook' = AuthTook
      BY <2>1, <3>1 DEF AuthTook
    <3>3. AuthGave' = AuthGave
      BY <1>7, <2>1, <3>1 DEF AuthGave, HashOK
    <3>4. StoredInOrder' /\ (Writing => PassedInOrder')
      BY <1>7, <2>1, <3>1, <3>2, <3>3 DEF StoredInOrder, PassedInOrder
    <3>5. HashOK'
      BY <1>7, <2>1, <3>1 DEF HashOK
    <3>6. EndPassed'
      BY <1>3, <2>1, <3>1 DEF EndPassed, OthersKeep
    <3>. QED
      BY <3>4, <3>5, <3>6
  <2>. QED
    BY <1>10, <2>3, <2>4
<1>14. CASE AuthTake
  <2>1. /\ pc["mac"] = "take" /\ hold["mac"] = NULL /\ UNCHANGED <<digest, macHeader, flagVars>>
        /\ hold' \in {hold, [hold EXCEPT !["mac"] = front("mac")]}
    BY <1>14 DEF AuthTake, Held, Keep, macVars
  <2>2. CASE front("mac") = NULL \/ front("mac").action = "MAC"
    <3>1. /\ UNCHANGED <<queue, hold>>
          /\ pc'["mac"] = IF front("mac") = NULL THEN "auth" ELSE "final"
      BY <1>1, <1>14, <2>2 DEF AuthTake, Go
    <3>2. Hashing'
      BY <1>3, <1>4, <1>8, <2>1, <3>1 DEF Hashing, HeaderSeal, OthersKeep, flagVars
    <3>3. ASSUME Flowing' PROVE StoredInOrder' /\ HashOK' /\ EndPassed' /\ (Writing => PassedInOrder')
      <4>1. Flowing /\ StoredInOrder /\ HashOK /\ EndPassed /\ (Writing => PassedInOrder)
        BY <1>5, <1>9, <3>3
      <4>2. AuthTook' = AuthTook /\ AuthGave' = AuthGave
        BY <1>7, <2>1, <3>1 DEF AuthTook, AuthGave
      <4>3. StoredInOrder' /\ (Writing => PassedInOrder')
        BY <1>7, <3>1, <4>1, <4>2 DEF StoredInOrder, PassedInOrder
      <4>4. pc'["mac"] = "final" => Len(digest) = Cuts + 1
        <5>. SUFFICES ASSUME pc'["mac"] = "final" PROVE Len(digest) = Cuts + 1
          OBVIOUS
        <5>1. front("mac") # NULL /\ front("mac").action = "MAC"
          BY <2>2, <3>1
        <5>2. queue["mac"] # <<>> /\ front("mac") = Head(queue["mac"]) /\ queue["mac"] \in Seq(Good)
          BY <1>1, <5>1, FrontType
        <5>3. AuthTook = Len(digest) /\ Len(digest) <= Cuts + 1
          BY <2>1, <4>1 DEF AuthTook, HashOK
        <5>4. front("mac") = StoredItems[Len(digest)]
          <6>1. Holds(queue["mac"], StoredItems, Len(digest))
            BY <4>1, <5>3 DEF StoredInOrder
          <6>. QED
            BY <1>7, <5>2, <6>1, HoldsTake
        <5>5. ~(Len(digest) \in 0 .. Cuts)
          <6>. SUFFICES ASSUME Len(digest) \in 0 .. Cuts PROVE FALSE
            OBVIOUS
          <6>1. StoredItems[Len(digest)].action \notin {"MAC", "DONE"}
            BY <1>1, StoredItem
          <6>. QED
            BY <5>1, <5>4, <6>1
        <5>. QED
          BY <1>7, <5>3, <5>5
      <4>5. HashOK'
        BY <1>7, <2>1, <3>1, <4>1, <4>4 DEF HashOK
      <4>6. EndPassed'
        BY <1>3, <2>1, <3>1, <4>1 DEF EndPassed, OthersKeep
      <4>. QED
        BY <4>3, <4>5, <4>6
    <3>. QED
      BY <1>10, <3>2, <3>3
  <2>3. CASE front("mac") # NULL /\ front("mac").action # "MAC"
    <3>1. /\ deque("mac")
          /\ front("mac").action = "DONE" => pc'["mac"] = "final" /\ UNCHANGED hold
          /\ front("mac").action # "DONE" =>
               pc'["mac"] = "hash" /\ hold'["mac"] = front("mac")
      BY <1>1, <1>14, <2>3 DEF AuthTake, Go, Keep
    <3>2. /\ queue'["mac"] = Tail(queue["mac"]) /\ queue'["crypto"] = queue["crypto"]
          /\ front("mac") = Head(queue["mac"]) /\ front("mac") \in Good
          /\ front("mac") \in Stored /\ queue'["mac"] \in Seq(Stored)
          /\ Len(queue'["mac"]) = Len(queue["mac"]) - 1
          /\ Flowing => /\ front("mac") = StoredItems[AuthTook]
                        /\ Holds(queue'["mac"], StoredItems, AuthTook + 1)
      <4>1. queue["mac"] # <<>>
        BY <2>3, FrontType
      <4>. QED
        BY <1>11, <2>3, <3>1, <4>1
    <3>3. Hashing'
      <4>1. /\ pc'["mac"] \in {"final", "hash"}
            /\ pc'["mac"] = "hash" => hold'["mac"] \in Stored
        BY <3>1, <3>2
      <4>. QED
        BY <1>3, <1>4, <1>8, <2>1, <3>2, <4>1 DEF Hashing, HeaderSeal, OthersKeep, flagVars
    <3>4. ASSUME Flowing' PROVE StoredInOrder' /\ HashOK' /\ EndPassed' /\ (Writing => PassedInOrder')
      <4>1. Flowing /\ StoredInOrder /\ HashOK /\ EndPassed /\ (Writing => PassedInOrder)
        BY <1>5, <1>9, <3>4
      <4>2. AuthTook = Len(digest) /\ Len(digest) <= Cuts + 1
        BY <2>1, <4>1 DEF AuthTook, HashOK
      <4>3. front("mac") = StoredItems[Len(digest)]
        BY <3>2, <4>1, <4>2
      <4>4. Len(digest) <= Cuts
        <5>1. Len(digest) = Cuts + 1 => StoredItems[Len(digest)].action = "MAC"
          BY <1>1, EndItems
        <5>. QED
          BY <1>7, <2>3, <4>2, <4>3, <5>1
      <4>5. front("mac").action # "DONE"
        <5>1. Len(digest) \in 0 .. Cuts
          BY <1>7, <4>4
        <5>2. StoredItems[Len(digest)].action \notin {"MAC", "DONE"}
          BY <1>1, <5>1, StoredItem
        <5>. QED
          BY <4>3, <5>2
      <4>6. pc'["mac"] = "hash" /\ hold'["mac"] = StoredItems[Len(digest)]
        BY <3>1, <4>3, <4>5
      <4>7. AuthTook' = AuthTook + 1
        BY <2>1, <4>2, <4>6 DEF AuthTook
      <4>8. AuthGave' = AuthGave
        BY <1>7, <2>1, <4>6 DEF AuthGave
      <4>9. StoredInOrder'
        <5>1. Len(queue["mac"]) = ReadPut - Len(digest)
          BY <4>1, <4>2 DEF StoredInOrder
        <5>2. Len(queue'["mac"]) = ReadPut' - AuthTook'
          BY <1>7, <3>2, <4>2, <4>7, <5>1
        <5>. QED
          BY <1>7, <3>2, <4>1, <4>7, <5>2 DEF StoredInOrder
      <4>10. Writing => PassedInOrder'
        BY <1>7, <3>2, <4>1, <4>8 DEF PassedInOrder
      <4>11. HashOK'
        BY <1>7, <2>1, <4>1, <4>4, <4>6 DEF HashOK
      <4>12. EndPassed'
        BY <1>3, <2>1, <3>2, <4>1, <4>6 DEF EndPassed, OthersKeep
      <4>. QED
        BY <4>9, <4>10, <4>11, <4>12
    <3>. QED
      BY <1>10, <3>3, <3>4
  <2>. QED
    BY <2>2, <2>3
<1>15. CASE AuthHeaderBad
  <2>1. /\ pc["mac"] = "hash" /\ pc'["mac"] = "exit" /\ error' # "none"
        /\ UNCHANGED <<queue, hold, digest, macHeader, valid, newFileSize>>
    BY <1>1, <1>15 DEF AuthHeaderBad, Goto, macVars
  <2>2. Hashing'
    BY <1>3, <1>4, <1>8, <2>1 DEF Hashing, HeaderSeal, OthersKeep
  <2>3. ~Flowing'
    BY <2>1 DEF Flowing, Going, KeepGoing
  <2>. QED
    BY <1>10, <2>2, <2>3
<1>16. CASE AuthHash
  <2>1. /\ pc["mac"] = "hash" /\ pc'["mac"] = "pass" /\ (macHeader => checkHeader(hold["mac"]))
        /\ valid' = TRUE /\ newFileSize' = (IF macHeader THEN file.promised ELSE newFileSize)
        /\ macHeader' = FALSE /\ digest' = Append(digest, Data(hold["mac"]))
        /\ hold' = [hold EXCEPT !["mac"] = [hold["mac"] EXCEPT !.action = "WRITE"]]
        /\ UNCHANGED <<error, queue>>
    BY <1>1, <1>16 DEF AuthHash, Goto, Keep, Held
  <2>2. hold["mac"] # NULL /\ hold["mac"] \in Good /\ hold["mac"].action # "MAC" /\ hold["mac"] \in Stored
    BY <1>1, <1>8, <2>1 DEF TypeInv, HoldsTyped, Hashing
  <2>3. Data(hold["mac"]) \in Pieces /\ hold["mac"] \in Chunks
    BY <2>2, DataType DEF NoMac, Good
  <2>4. Data(hold["mac"]).id = hold["mac"].id /\ Data(hold["mac"]).seal = hold["mac"].seal
    BY <2>3 DEF Data, Chunks
  <2>5. /\ Len(digest') = Len(digest) + 1 /\ digest' # <<>>
        /\ \A i \in 1 .. Len(digest) : digest'[i] = digest[i]
        /\ digest'[Len(digest) + 1] = Data(hold["mac"])
    <3>. DEFINE d == Data(hold["mac"])
    <3>. HIDE DEF d
    <3>1. d \in Pieces /\ digest' = Append(digest, d)
      BY <2>1, <2>3 DEF d
    <3>2. /\ Len(digest') = Len(digest) + 1 /\ digest' # <<>>
          /\ \A i \in 1 .. Len(digest) : digest'[i] = digest[i]
          /\ digest'[Len(digest) + 1] = d
      <4>1. digest \in Seq(Pieces)
        BY <1>1
      <4>. QED
        BY ONLY <3>1, <4>1
    <3>. QED
      BY <3>2 DEF d
  <2>6. Hashing'
    <3>1. newFileSize' = file.promised /\ file' = file
      BY <1>3, <1>8, <2>1 DEF Hashing
    <3>2. file.damage # "header"
      <4>1. macHeader => file.damage # "header"
        BY <1>1, <2>1, <2>2, HeaderPasses
      <4>2. ~macHeader => file.damage # "header"
        BY <1>8 DEF Hashing
      <4>. QED
        BY <4>1, <4>2
    <3>3. file.damage = "body" => \A i \in 1 .. Len(digest') : digest'[i].id = 1 => digest'[i].seal = <<Garbled>>
      <4>. SUFFICES ASSUME file.damage = "body", NEW i \in 1 .. Len(digest) + 1, digest'[i].id = 1
                    PROVE  digest'[i].seal = <<Garbled>>
        BY <2>5
      <4>1. CASE i \in 1 .. Len(digest)
        BY <1>8, <2>5, <4>1 DEF Hashing
      <4>2. CASE i = Len(digest) + 1
        <5>1. digest'[i] = Data(hold["mac"])
          BY <2>5, <4>2
        <5>2. hold["mac"].id = 1
          BY <2>4, <5>1
        <5>3. hold["mac"].seal = <<Garbled>>
          BY <1>1, <2>2, <5>2, OnlyFirst
        <5>. QED
          BY <2>4, <5>1, <5>3
      <4>. QED
        BY <1>7, <4>1, <4>2
    <3>4. queue'["mac"] \in Seq(Stored') /\ hold'["read"] \in Stored' \cup {NULL}
      BY <1>3, <1>4, <1>8, <2>1 DEF Hashing, OthersKeep
    <3>5. \A i \in 1 .. Len(digest') : digest'[i].id = HeaderId => digest'[i].seal = HeaderSeal
      <4>. SUFFICES ASSUME NEW i \in 1 .. Len(digest) + 1, digest'[i].id = HeaderId
                    PROVE  digest'[i].seal = HeaderSeal
        BY <2>5
      <4>1. CASE i \in 1 .. Len(digest)
        BY <1>8, <2>5, <4>1 DEF Hashing
      <4>2. CASE i = Len(digest) + 1
        BY <1>1, <2>2, <2>4, <2>5, <4>2, OnlyHeader
      <4>. QED
        BY <1>7, <4>1, <4>2
    <3>6. HeaderSeal' = HeaderSeal
      BY <3>1 DEF HeaderSeal
    <3>. QED
      BY <2>1, <2>5, <3>1, <3>2, <3>3, <3>4, <3>5, <3>6 DEF Hashing
  <2>7. ASSUME Flowing' PROVE StoredInOrder' /\ HashOK' /\ EndPassed' /\ (Writing => PassedInOrder')
    <3>1. /\ Flowing /\ StoredInOrder /\ HashOK /\ EndPassed /\ (Writing => PassedInOrder)
          /\ Len(digest) <= Cuts /\ hold["mac"] = StoredItems[Len(digest)]
      <4>1. Flowing /\ StoredInOrder /\ HashOK /\ EndPassed /\ (Writing => PassedInOrder)
        BY <1>5, <1>9, <2>7
      <4>. QED
        BY <2>1, <4>1 DEF HashOK
    <3>2. Len(digest) \in 0 .. Cuts
      BY <1>7, <3>1
    <3>3. hold'["mac"] = PassedItems[Len(digest)]
      <4>1. PassedItems[Len(digest)] = [StoredItems[Len(digest)] EXCEPT !.action = "WRITE"]
        BY <1>1, <3>2, StoredItem
      <4>2. hold'["mac"] = [hold["mac"] EXCEPT !.action = "WRITE"]
        BY <1>1, <2>1
      <4>. QED
        BY <3>1, <4>1, <4>2
    <3>4. hold'["mac"] # NULL
      BY <2>1, MacTypes DEF TypeInv, HoldsTyped
    <3>5. AuthTook' = AuthTook /\ AuthTook = Len(digest) + 1
      BY <2>1, <2>5 DEF AuthTook
    <3>6. AuthGave' = AuthGave
      <4>1. AuthGave = Len(digest)
        BY <2>1 DEF AuthGave
      <4>2. AuthGave' = Len(digest') - 1
        BY <2>1, <3>4 DEF AuthGave
      <4>. QED
        BY <1>7, <2>5, <4>1, <4>2
    <3>7. StoredInOrder' /\ (Writing => PassedInOrder')
      BY <1>7, <2>1, <3>1, <3>5, <3>6 DEF StoredInOrder, PassedInOrder
    <3>8. HashOK'
      <4>1. \A i \in 1 .. Len(digest') : digest'[i] = Data(StoredItems[i - 1])
        <5>. SUFFICES ASSUME NEW i \in 1 .. Len(digest) + 1 PROVE digest'[i] = Data(StoredItems[i - 1])
          BY <2>5
        <5>1. CASE i \in 1 .. Len(digest)
          BY <2>5, <3>1, <5>1 DEF HashOK
        <5>2. CASE i = Len(digest) + 1
          <6>1. i - 1 = Len(digest)
            BY <1>7, <5>2
          <6>. QED
            BY <2>5, <3>1, <5>2, <6>1
        <5>. QED
          BY <1>7, <5>1, <5>2
      <4>2. Len(digest') - 1 = Len(digest) /\ Len(digest') >= 1 /\ Len(digest') <= Cuts + 1
        BY <1>7, <2>5, <3>1
      <4>. QED
        BY <1>7, <2>1, <3>3, <4>1, <4>2 DEF HashOK
    <3>9. EndPassed'
      BY <1>3, <2>1, <3>1 DEF EndPassed, OthersKeep
    <3>. QED
      BY <3>7, <3>8, <3>9
  <2>. QED
    BY <1>10, <2>6, <2>7
<1>17. CASE AuthPass
  <2>1. /\ pc["mac"] = "pass" /\ pc'["mac"] = "auth" /\ UNCHANGED <<digest, macHeader, flagVars>>
        /\ hold["mac"] # NULL /\ hold["mac"] \in Good
    BY <1>1, <1>17 DEF AuthPass, Goto, macVars, TypeInv, HoldsTyped
  <2>2. \/ UNCHANGED <<queue, hold>>
        \/ /\ queue' = [queue EXCEPT !["crypto"] = Append(@, hold["mac"])]
           /\ hold' = [hold EXCEPT !["mac"] = NULL]
    BY <1>1, <1>17 DEF AuthPass, Put, Keep, Held
  <2>3. queue'["mac"] = queue["mac"]
    BY <1>1, <2>2
  <2>4. Hashing'
    BY <1>3, <1>4, <1>8, <2>1, <2>3 DEF Hashing, HeaderSeal, OthersKeep, flagVars
  <2>5. ASSUME Flowing' PROVE StoredInOrder' /\ HashOK' /\ EndPassed' /\ (Writing => PassedInOrder')
    <3>1. /\ Flowing /\ StoredInOrder /\ HashOK /\ EndPassed /\ (Writing => PassedInOrder)
          /\ Len(digest) >= 1 /\ Len(digest) <= Cuts + 1 /\ hold["mac"] = PassedItems[Len(digest) - 1]
      <4>1. Flowing /\ StoredInOrder /\ HashOK /\ EndPassed /\ (Writing => PassedInOrder)
        BY <1>5, <1>9, <2>5
      <4>. QED
        BY <2>1, <4>1 DEF HashOK
    <3>2. AuthTook' = AuthTook
      BY <2>1 DEF AuthTook
    <3>3. StoredInOrder'
      BY <1>7, <2>3, <3>1, <3>2 DEF StoredInOrder
    <3>4. AuthGave = Len(digest) - 1
      BY <2>1 DEF AuthGave
    <3>5. CASE UNCHANGED <<queue, hold>>
      <4>1. AuthGave' = AuthGave
        BY <2>1, <3>5 DEF AuthGave
      <4>2. Writing => PassedInOrder'
        BY <1>7, <3>1, <3>5, <4>1 DEF PassedInOrder
      <4>3. HashOK'
        BY <1>7, <2>1, <3>1, <3>5 DEF HashOK
      <4>4. EndPassed'
        BY <1>3, <2>1, <3>1, <3>5 DEF EndPassed, OthersKeep
      <4>. QED
        BY <3>3, <4>2, <4>3, <4>4
    <3>6. CASE /\ queue' = [queue EXCEPT !["crypto"] = Append(@, hold["mac"])]
               /\ hold' = [hold EXCEPT !["mac"] = NULL]
      <4>1. hold'["mac"] = NULL
        BY <1>1, <3>6
      <4>2. AuthGave' = AuthGave + 1 /\ AuthGave \in Int
        <5>1. AuthGave' = Len(digest) - 0
          BY <2>1, <4>1 DEF AuthGave
        <5>. QED
          BY <1>7, <3>4, <5>1
      <4>3. /\ queue'["crypto"] = Append(queue["crypto"], hold["mac"])
            /\ Writing => PassedInOrder'
        BY <1>12, <2>1, <3>1, <3>4, <3>6, <4>2
      <4>4. HashOK'
        BY <1>7, <2>1, <3>1, <4>1 DEF HashOK
      <4>5. hold["mac"].action # "DONE"
        <5>1. Len(digest) - 1 \in 0 .. Cuts
          BY <1>7, <3>1
        <5>2. PassedItems[Len(digest) - 1].action = "WRITE"
          BY <1>1, <5>1, StoredItem
        <5>. QED
          BY <3>1, <5>2
      <4>6. EndPassed'
        <5>1. queue["crypto"] \in Seq(Good)
          BY <1>1
        <5>2. \A i \in 1 .. Len(queue'["crypto"]) : queue'["crypto"][i].action # "DONE"
          <6>1. \A i \in 1 .. Len(queue["crypto"]) : queue["crypto"][i].action # "DONE"
            BY <2>1, <3>1 DEF EndPassed
          <6>. QED
            BY <2>1, <4>3, <4>5, <5>1, <6>1
        <5>. QED
          BY <1>3, <2>1, <3>1, <5>2 DEF EndPassed, OthersKeep
      <4>. QED
        BY <3>3, <4>3, <4>4, <4>6
    <3>. QED
      BY <2>2, <3>5, <3>6
  <2>. QED
    BY <1>10, <2>4, <2>5
<1>18. CASE AuthFinal
  <2>1. /\ pc["mac"] = "final" /\ UNCHANGED <<queue, digest, macHeader, valid, newFileSize>>
        /\ hold' = [hold EXCEPT !["mac"] = NULL] /\ hold'["mac"] = NULL
        /\ (pc'["mac"] = "stored" /\ error' = error) \/ (pc'["mac"] = "exit" /\ error' # "none")
    BY <1>1, <1>18 DEF AuthFinal, Go, Keep, macVars
  <2>2. Hashing'
    BY <1>3, <1>4, <1>8, <2>1 DEF Hashing, HeaderSeal, OthersKeep
  <2>3. ASSUME Flowing' PROVE StoredInOrder' /\ HashOK' /\ EndPassed' /\ (Writing => PassedInOrder')
    <3>1. Flowing /\ StoredInOrder /\ HashOK /\ EndPassed /\ (Writing => PassedInOrder)
          /\ pc'["mac"] = "stored"
      BY <1>5, <1>9, <2>1, <2>3 DEF Flowing, Going, KeepGoing
    <3>2. AuthTook' = AuthTook /\ AuthGave' = AuthGave
      BY <2>1, <3>1 DEF AuthTook, AuthGave
    <3>3. StoredInOrder' /\ (Writing => PassedInOrder')
      BY <1>7, <2>1, <3>1, <3>2 DEF StoredInOrder, PassedInOrder
    <3>4. HashOK'
      BY <1>7, <2>1, <3>1 DEF HashOK
    <3>5. EndPassed'
      BY <1>3, <2>1, <3>1 DEF EndPassed, OthersKeep
    <3>. QED
      BY <3>3, <3>4, <3>5
  <2>. QED
    BY <1>10, <2>2, <2>3
<1>19. CASE AuthFetch
  <2>1. /\ pc["mac"] = "fetch" /\ UNCHANGED <<digest, macHeader, flagVars>>
        /\ front("mac") = NULL => pc'["mac"] = "stored" /\ UNCHANGED <<queue, hold>>
        /\ front("mac") # NULL => /\ pc'["mac"] = "verdict" /\ deque("mac")
                                  /\ hold'["mac"] = front("mac")
        /\ front("mac") # NULL => digest # <<>>
        /\ hold["mac"] = NULL
    BY <1>1, <1>8, <1>19 DEF AuthFetch, Go, Keep, macVars, Hashing, front
  <2>2. CASE front("mac") = NULL
    <3>1. Hashing'
      BY <1>3, <1>4, <1>8, <2>1, <2>2 DEF Hashing, HeaderSeal, OthersKeep, flagVars
    <3>2. ASSUME Flowing' PROVE StoredInOrder' /\ HashOK' /\ EndPassed' /\ (Writing => PassedInOrder')
      <4>1. Flowing /\ StoredInOrder /\ HashOK /\ EndPassed /\ (Writing => PassedInOrder)
        BY <1>5, <1>9, <3>2
      <4>2. AuthTook' = AuthTook /\ AuthGave' = AuthGave
        BY <2>1, <2>2 DEF AuthTook, AuthGave
      <4>3. StoredInOrder' /\ (Writing => PassedInOrder')
        BY <1>7, <2>1, <2>2, <4>1, <4>2 DEF StoredInOrder, PassedInOrder
      <4>4. HashOK'
        BY <1>7, <2>1, <2>2, <4>1 DEF HashOK
      <4>5. EndPassed'
        BY <1>3, <2>1, <2>2, <4>1 DEF EndPassed, OthersKeep
      <4>. QED
        BY <4>3, <4>4, <4>5
    <3>. QED
      BY <1>10, <3>1, <3>2
  <2>3. CASE front("mac") # NULL
    <3>1. /\ queue'["mac"] = Tail(queue["mac"]) /\ queue'["crypto"] = queue["crypto"]
          /\ front("mac") = Head(queue["mac"]) /\ front("mac") \in Good
          /\ front("mac") \in Stored /\ queue'["mac"] \in Seq(Stored)
          /\ Len(queue'["mac"]) = Len(queue["mac"]) - 1
          /\ Flowing => /\ front("mac") = StoredItems[AuthTook]
                        /\ Holds(queue'["mac"], StoredItems, AuthTook + 1)
      <4>1. queue["mac"] # <<>>
        BY <2>3, FrontType
      <4>. QED
        BY <1>11, <2>1, <2>3, <4>1
    <3>2. Hashing'
      BY <1>3, <1>4, <1>8, <2>1, <2>3, <3>1 DEF Hashing, HeaderSeal, OthersKeep, flagVars
    <3>3. ASSUME Flowing' PROVE StoredInOrder' /\ HashOK' /\ EndPassed' /\ (Writing => PassedInOrder')
      <4>1. /\ Flowing /\ StoredInOrder /\ HashOK /\ EndPassed /\ (Writing => PassedInOrder)
            /\ Len(digest) = Cuts + 1
        <5>1. Flowing /\ StoredInOrder /\ HashOK /\ EndPassed /\ (Writing => PassedInOrder)
          BY <1>5, <1>9, <3>3
        <5>. QED
          BY <2>1, <5>1 DEF HashOK
      <4>2. AuthTook = Cuts + 1 /\ AuthTook' = Cuts + 2 /\ AuthGave' = AuthGave
        BY <1>7, <2>1, <2>3, <4>1 DEF AuthTook, AuthGave
      <4>3. hold'["mac"] = StoredItems[Cuts + 1]
        BY <2>1, <2>3, <3>1, <4>1, <4>2
      <4>4. StoredInOrder'
        <5>1. Len(queue["mac"]) = ReadPut - (Cuts + 1)
          BY <4>1, <4>2 DEF StoredInOrder
        <5>2. Len(queue'["mac"]) = ReadPut' - AuthTook'
          BY <1>7, <3>1, <4>2, <5>1
        <5>3. AuthTook + 1 = AuthTook'
          BY <1>7, <4>2
        <5>. QED
          BY <1>7, <3>1, <4>1, <5>2, <5>3 DEF StoredInOrder
      <4>5. Writing => PassedInOrder'
        BY <1>7, <3>1, <4>1, <4>2 DEF PassedInOrder
      <4>6. HashOK'
        BY <1>7, <2>1, <2>3, <4>1, <4>3 DEF HashOK
      <4>7. EndPassed'
        BY <1>3, <2>1, <2>3, <3>1, <4>1 DEF EndPassed, OthersKeep
      <4>. QED
        BY <4>4, <4>5, <4>6, <4>7
    <3>. QED
      BY <1>10, <3>2, <3>3
  <2>. QED
    BY <2>2, <2>3
<1>20. CASE AuthVerdict
  <2>1. /\ pc["mac"] = "verdict" /\ UNCHANGED <<queue, digest, macHeader, valid, newFileSize>>
        /\ hold'["mac"] = NULL
        /\ \/ MacMatches /\ pc'["mac"] = "flush" /\ error' = error
           \/ pc'["mac"] = "exit" /\ error' # "none"
    BY <1>1, <1>20 DEF AuthVerdict, Go, Keep, macVars
  <2>2. MacMatches => file.damage = "intact"
    <3>. SUFFICES ASSUME MacMatches PROVE file.damage = "intact"
      OBVIOUS
    <3>1. hold["mac"] # NULL /\ hold["mac"].action = "MAC" /\ hold["mac"].digest = digest
      BY DEF MacMatches, Held
    <3>2. hold["mac"] \in Stored /\ digest # <<>>
      BY <1>8, <2>1, <3>1 DEF Hashing
    <3>3. digest = StoredMac
      BY <1>1, <3>1, <3>2, OnlyMac
    <3>. QED
      BY <1>1, <1>8, <3>2, <3>3, MatchIsIntact
  <2>3. Hashing'
    BY <1>3, <1>4, <1>8, <2>1, <2>2 DEF Hashing, HeaderSeal, OthersKeep
  <2>4. ASSUME Flowing' PROVE StoredInOrder' /\ HashOK' /\ EndPassed' /\ (Writing => PassedInOrder')
    <3>1. Flowing /\ StoredInOrder /\ HashOK /\ EndPassed /\ (Writing => PassedInOrder)
          /\ pc'["mac"] = "flush"
      BY <1>5, <1>9, <2>1, <2>4 DEF Flowing, Going, KeepGoing
    <3>2. AuthTook' = AuthTook /\ AuthGave' = AuthGave
      BY <1>7, <2>1, <3>1 DEF AuthTook, AuthGave
    <3>3. StoredInOrder' /\ (Writing => PassedInOrder')
      BY <1>7, <2>1, <3>1, <3>2 DEF StoredInOrder, PassedInOrder
    <3>4. HashOK'
      BY <1>7, <2>1, <3>1 DEF HashOK
    <3>5. EndPassed'
      BY <1>3, <2>1, <3>1 DEF EndPassed, OthersKeep
    <3>. QED
      BY <3>3, <3>4, <3>5
  <2>. QED
    BY <1>10, <2>3, <2>4
<1>21. CASE MacDone
  <2>1. /\ pc["mac"] = "flush" /\ pc'["mac"] = "exit" /\ UNCHANGED <<hold, digest, macHeader, flagVars>>
        /\ queue' = [queue EXCEPT !["crypto"] = Append(@, DONE)]
        /\ DONE \in Good
    BY <1>1, <1>21, DoneType DEF MacDone, Goto, Put, macVars
  <2>2. queue'["mac"] = queue["mac"]
    BY <1>1, <2>1
  <2>3. Hashing'
    BY <1>3, <1>4, <1>8, <2>1, <2>2 DEF Hashing, HeaderSeal, OthersKeep, flagVars
  <2>4. ASSUME Flowing' PROVE StoredInOrder' /\ HashOK' /\ EndPassed' /\ (Writing => PassedInOrder')
    <3>1. /\ Flowing /\ StoredInOrder /\ HashOK /\ EndPassed /\ (Writing => PassedInOrder)
          /\ Len(digest) = Cuts + 1
      <4>1. Flowing /\ StoredInOrder /\ HashOK /\ EndPassed /\ (Writing => PassedInOrder)
        BY <1>5, <1>9, <2>4
      <4>. QED
        BY <2>1, <4>1 DEF HashOK
    <3>2. AuthTook' = AuthTook
      BY <1>7, <2>1 DEF AuthTook
    <3>3. StoredInOrder'
      BY <1>7, <2>2, <3>1, <3>2 DEF StoredInOrder
    <3>4. AuthGave = Cuts + 1 /\ AuthGave' = Cuts + 2
      BY <1>7, <2>1, <3>1 DEF AuthGave
    <3>5. DONE = PassedItems[AuthGave]
      <4>1. Cuts + 1 \in Nat /\ Cuts + 1 > Cuts
        BY <1>7
      <4>. QED
        BY <1>1, <3>4, <4>1, EndItems
    <3>6. Writing => PassedInOrder'
      <4>1. AuthGave \in Int /\ AuthGave' = AuthGave + 1
        BY <1>7, <3>4
      <4>. QED
        BY <1>12, <2>1, <3>1, <3>5, <4>1
    <3>7. HashOK'
      BY <1>7, <2>1, <3>1 DEF HashOK
    <3>8. EndPassed'
      BY <1>3, <2>1, <3>1 DEF EndPassed, OthersKeep
    <3>. QED
      BY <3>3, <3>6, <3>7, <3>8
  <2>. QED
    BY <1>10, <2>3, <2>4
<1>. QED
  BY <1>2, <1>13, <1>14, <1>15, <1>16, <1>17, <1>18, <1>19, <1>20, <1>21

\* A chunk comes out of the crypto thread only after the header was checked.
LEMMA ClearIsChecked ==
  ASSUME TypeInv, DecInv, ~Encrypting, ~TooSmall, Flowing, Writing, ClearGave >= 1, ClearGave \in Nat
  PROVE  valid
<1>1. StoredInOrder /\ HashOK /\ PassedInOrder /\ DecipherOK /\ Hashing
  BY DEF DecInv
<1>2. /\ Cuts \in Nat \ {0} /\ Len(digest) \in Nat
      /\ Len(queue["crypto"]) \in Nat
  <2>1. Cuts \in Nat \ {0}
    BY CutsFacts
  <2>2. digest \in Seq(Pieces) /\ queue["crypto"] \in Seq(Good)
    BY DEF TypeInv, MacTyped, QueuesTyped, Queues
  <2>. QED
    BY <2>1, <2>2
<1>3. DecipherTook \in Int /\ DecipherTook >= 1
  BY <1>1, <1>2 DEF DecipherOK, DecipherTook, HeldCount
<1>4. AuthGave \in Int
  BY <1>2 DEF AuthGave, HeldCount
<1>5. AuthGave >= 1
  BY <1>1, <1>2, <1>3, <1>4 DEF PassedInOrder
<1>6. Len(digest) >= 1
  BY <1>1, <1>2, <1>5 DEF AuthGave, HeldCount, HashOK
<1>7. digest # <<>>
  <2>1. Len(<<>>) = 0
    OBVIOUS
  <2>. QED
    BY <1>6, <2>1
<1>. QED
  BY <1>1, <1>7 DEF Hashing

\* The steps of the write thread.
LEMMA WriteKeepsDecInv ==
  ASSUME TypeInv, DecInv, ~Encrypting, WriteStep, StillNothing'
  PROVE  DecInv'
<1>. USE DEF Threads, Queues
<1>1. /\ Started /\ Launched /\ ~TooSmall
      /\ pc \in [Threads \cup {"main"} -> Pcs] /\ hold \in [Threads -> Good \cup {NULL}]
      /\ queue \in [Queues -> Seq(Good)]
      /\ running \in BOOLEAN
      /\ temp \in Seq(Chunks) \cup {NULL}
      /\ WriteOpen \/ WriteTurn \/ WriteTake \/ WriteChunk \/ WriteFinish \/ WriteRename \/ WriteStop
  BY DEF WriteStep, Writer, TypeInv, FlagsTyped, PcsTyped, HoldsTyped, QueuesTyped, WriteTyped,
         Started, Launched
<1>2. /\ UNCHANGED <<readVars, cryptoVars, macVars, status, file, valid, newFileSize>>
      /\ OthersKeep("write")
      /\ queue'["crypto"] = queue["crypto"] /\ queue'["mac"] = queue["mac"]
      /\ pc["write"] # "exit" /\ pc'["write"] # "start" /\ pc'["main"] = pc["main"]
      /\ running' = running \/ running' = FALSE
  BY <1>1 DEF WriteStep, WriteOpen, WriteTurn, WriteTake, WriteChunk, WriteFinish, WriteRename, WriteStop,
              Goto, Go, Keep, deque, flagVars, OthersKeep
<1>3. UNCHANGED FixedParts /\ Stored' = Stored
  <2>1. UNCHANGED FixedParts
    BY <1>2, FixedPartsFacts
  <2>. QED
    BY <2>1 DEF Stored, FixedParts
<1>4. Outcome /\ Hashing /\ running
  BY <1>1, <1>2 DEF DecInv, Outcome
<1>5. /\ pc["main"] \in {"bar", "join"}
      /\ error' = "none" => error = "none"
      /\ Flowing' => Flowing /\ error' = error
      /\ error = "none" => Going
  BY <1>1, <1>2, <1>4 DEF OthersKeep, Started, Flowing, Going, KeepGoing, Launched, readVars
<1>6. Hashing'
  BY <1>2, <1>3, <1>4, <1>5 DEF Hashing, HeaderSeal, OthersKeep, macVars
<1>7. Flowing => /\ StoredInOrder /\ SourceOK /\ HashOK /\ EndPassed
                 /\ Writing => PassedInOrder /\ ClearInOrder /\ DecipherOK /\ WrittenOK
  BY DEF DecInv
<1>8. Flowing' => StoredInOrder' /\ SourceOK' /\ HashOK' /\ EndPassed'
  <2>. SUFFICES ASSUME Flowing PROVE StoredInOrder' /\ SourceOK' /\ HashOK' /\ EndPassed'
    BY <1>5
  <2>1. StoredInOrder /\ SourceOK /\ HashOK /\ EndPassed
    BY <1>7
  <2>2. UNCHANGED <<ReadCut, ReadPut, AuthTook>>
    BY <1>2, <1>3 DEF ReadPut, ReadCut, CutsIn, AuthTook, HeldCount, OthersKeep, readVars, macVars, FixedParts
  <2>3. StoredInOrder'
    BY <1>2, <1>3, <2>1, <2>2 DEF StoredInOrder, Holds, FixedParts
  <2>4. SourceOK'
    BY <1>2, <1>3, <2>1, <2>2 DEF SourceOK, OnCut, OthersKeep, readVars, FixedParts
  <2>5. HashOK'
    BY <1>2, <1>3, <2>1 DEF HashOK, OthersKeep, macVars, FixedParts
  <2>6. EndPassed'
    BY <1>2, <2>1 DEF EndPassed, OthersKeep
  <2>. QED
    BY <2>3, <2>4, <2>5, <2>6
<1>9. /\ Cuts' = Cuts /\ ClearItems' = ClearItems /\ ClearPiece' = ClearPiece
      /\ file' = file /\ file.promised \in Nat
      /\ Cuts \in Nat \ {0} /\ Len(queue["write"]) \in Nat
      /\ temp # NULL => Len(temp) \in Nat /\ temp \in Seq(Chunks)
      /\ \A k \in 0 .. Cuts : Written(k)' = Written(k) /\ Written(k) \in Nat
  <2>1. /\ Cuts' = Cuts /\ ClearItems' = ClearItems /\ ClearPiece' = ClearPiece
        /\ file' = file /\ file.promised \in Nat
        /\ Cuts \in Nat \ {0} /\ Len(queue["write"]) \in Nat
        /\ temp # NULL => Len(temp) \in Nat /\ temp \in Seq(Chunks)
    <3>1. Cuts \in Nat \ {0} /\ file.promised \in Nat
      BY ONLY TypeInv, ~Encrypting, <1>1, CutsFacts
    <3>2. Cuts' = Cuts /\ ClearItems' = ClearItems /\ ClearPiece' = ClearPiece /\ file' = file
      BY <1>2, <1>3 DEF FixedParts
    <3>. QED
      BY <1>1, <3>1, <3>2
  <2>2. ASSUME NEW k \in 0 .. Cuts PROVE Written(k)' = Written(k) /\ Written(k) \in Nat
    BY <1>1, <1>3, <2>1, WrittenFacts DEF Written, SumTo, CutSize, FixedParts
  <2>. QED
    BY <2>1, <2>2
<1>10. ASSUME ClearGave' = ClearGave, Flowing, Writing
       PROVE  PassedInOrder' /\ DecipherOK'
  <2>1. PassedInOrder /\ DecipherOK
    BY <1>7, <1>10
  <2>2. DecipherTook' = DecipherTook
    BY <1>2, <1>9, <1>10 DEF DecipherTook, HeldCount, OthersKeep, cryptoVars
  <2>3. AuthGave' = AuthGave
    BY <1>2, <1>9 DEF AuthGave, HeldCount, OthersKeep, macVars
  <2>4. PassedInOrder'
    BY <1>2, <1>3, <2>1, <2>2, <2>3 DEF PassedInOrder, Holds, FixedParts
  <2>5. DecipherOK'
    BY <1>2, <1>3, <1>10, <2>1 DEF DecipherOK, LastBlock, HeldCount, OthersKeep, cryptoVars, FixedParts
  <2>. QED
    BY <2>4, <2>5
<1>11. ASSUME Outcome', 
              Flowing' /\ Writing' => /\ Writing /\ ClearGave' = ClearGave
                                    /\ ClearInOrder' /\ WrittenOK'
       PROVE  DecInv'
  BY <1>2, <1>5, <1>6, <1>7, <1>8, <1>10, <1>11 DEF DecInv
<1>12. ASSUME UNCHANGED <<error, running, temp, target>>,
              pc'["write"] \notin {"finish", "rename", "stop", "exit"},
              pc["write"] # "stop"
       PROVE  Outcome'
  BY <1>2, <1>3, <1>4, <1>5, <1>12 DEF Outcome, Whole, SameBody, FixedParts
<1>13. ASSUME pc["write"] = "take", temp # NULL, error = "none",
              Flowing \/ valid \/ front("write") # NULL
       PROVE  /\ Flowing /\ Writing /\ hold["write"] = NULL
              /\ Len(temp) \in 0 .. Cuts /\ ClearTook = Len(temp) /\ bytesWritten = Written(Len(temp))
              /\ ClearInOrder /\ WrittenOK /\ PassedInOrder /\ DecipherOK /\ EndPassed
              /\ valid => newFileSize = file.promised
              /\ Written(Len(temp)) = file.promised => Whole(temp)
  <2>1. Flowing /\ Writing
    <3>1. origFileSize = 0 => ~valid /\ front("write") = NULL
      BY <1>4, <1>5, <1>13 DEF DecInv, StillNothing, NothingCame, Hashing, front
    <3>. QED
      BY <1>5, <1>13, <3>1 DEF Writing, Flowing
  <2>2. ClearInOrder /\ WrittenOK /\ PassedInOrder /\ DecipherOK /\ EndPassed
    BY <1>7, <2>1
  <2>3. hold["write"] = NULL /\ Len(temp) \in 0 .. Cuts /\ bytesWritten = Written(Len(temp))
    BY <1>9, <1>13, <2>2 DEF WrittenOK
  <2>4. ClearTook = Len(temp)
    BY <1>9, <1>13, <2>3 DEF ClearTook, HeldCount
  <2>5. Written(Len(temp)) = file.promised => Whole(temp)
    <3>1. /\ temp \in Seq(Chunks) /\ Len(temp) <= Cuts
          /\ \A i \in 1 .. Len(temp) : temp[i] = ClearPiece[i]
          /\ Len(temp) >= 1 => Written(Len(temp) - 1) < file.promised
      BY <1>9, <1>13, <2>2 DEF WrittenOK
    <3>. QED
      BY <1>1, <3>1, WholeFacts
  <2>. QED
    BY <1>4, <2>1, <2>2, <2>3, <2>4, <2>5 DEF Hashing
<1>14. CASE WriteOpen
  <2>1. /\ pc["write"] = "start" /\ UNCHANGED <<queue, hold, running, bytesWritten, target>>
        /\ \/ pc'["write"] = "loop" /\ temp' = <<>> /\ UNCHANGED error
           \/ pc'["write"] = "exit" /\ error' # "none" /\ UNCHANGED temp
    BY <1>1, <1>14 DEF WriteOpen, Go
  <2>2. target = NULL /\ temp = NULL
    BY <1>4, <2>1 DEF Outcome
  <2>3. Outcome'
    BY <1>2, <1>3, <1>4, <1>5, <2>1, <2>2 DEF Outcome, Whole, SameBody, FixedParts
  <2>4. ASSUME Flowing', Writing'
        PROVE  Writing /\ ClearGave' = ClearGave /\ ClearInOrder' /\ WrittenOK'
    <3>1. /\ pc'["write"] = "loop" /\ temp' = <<>> /\ Writing
          /\ ClearInOrder /\ WrittenOK
      BY <1>5, <1>7, <2>1, <2>4 DEF Writing
    <3>2. hold["write"] = NULL /\ bytesWritten = 0
      BY <2>1, <2>2, <3>1 DEF WrittenOK
    <3>3. ClearTook = 0
      BY <2>2 DEF ClearTook
    <3>4. ClearTook' = 0
      <4>1. Len(<<>>) = 0
        OBVIOUS
      <4>2. temp' # NULL
        <5>1. <<>> \in Seq(Chunks)
          OBVIOUS
        <5>. QED
          BY <3>1, <5>1, NullAssumption
      <4>. QED
        BY <2>1, <3>1, <3>2, <4>1, <4>2 DEF ClearTook, HeldCount
    <3>5. ClearGave' = ClearGave
      BY <2>1, <3>3, <3>4 DEF ClearGave
    <3>6. ClearInOrder'
      BY <1>9, <2>1, <3>1, <3>3, <3>4 DEF ClearInOrder, Holds
    <3>7. WrittenOK'
      <4>1. Len(temp') = 0
        BY <3>1
      <4>2. Written(0)' = 0
        BY DEF Written
      <4>. QED
        BY <1>9, <2>1, <3>1, <3>2, <4>1, <4>2 DEF WrittenOK
    <3>. QED
      BY <3>1, <3>5, <3>6, <3>7
  <2>. QED
    BY <1>11, <2>3, <2>4
<1>15. CASE WriteTurn
  <2>1. /\ pc["write"] = "loop" /\ pc'["write"] = IF KeepGoing THEN "take" ELSE "finish"
        /\ UNCHANGED <<queue, hold, running, error, bytesWritten, temp, target>>
    BY <1>1, <1>15 DEF WriteTurn, Goto, writeVars, flagVars
  <2>2. Outcome'
    <3>1. CASE KeepGoing
      BY <1>12, <2>1, <3>1
    <3>2. CASE ~KeepGoing
      <4>1. error # "none"
        BY <1>4, <3>2 DEF KeepGoing
      <4>. QED
        BY <1>2, <1>3, <1>4, <1>5, <2>1, <3>2, <4>1 DEF Outcome, Whole, SameBody, FixedParts
    <3>. QED
      BY <3>1, <3>2
  <2>3. ASSUME Flowing', Writing'
        PROVE  Writing /\ ClearGave' = ClearGave /\ ClearInOrder' /\ WrittenOK'
    <3>1. Writing /\ ClearInOrder /\ WrittenOK /\ pc'["write"] = "take"
      BY <1>5, <1>7, <2>1, <2>3 DEF Writing
    <3>2. ClearTook' = ClearTook /\ ClearGave' = ClearGave
      BY <2>1 DEF ClearTook, ClearGave, HeldCount
    <3>3. ClearInOrder'
      BY <1>9, <2>1, <3>1, <3>2 DEF ClearInOrder, Holds
    <3>4. WrittenOK'
      BY <1>2, <1>3, <2>1, <3>1 DEF WrittenOK, Written, SumTo, CutSize, FixedParts
    <3>. QED
      BY <3>1, <3>2, <3>3, <3>4
  <2>. QED
    BY <1>11, <2>2, <2>3
<1>16. CASE WriteTake
  <2>. DEFINE k == Len(temp)
              c == front("write")
              done == SizeReached \/ (c # NULL /\ c.action = "DONE")
  <2>1. /\ pc["write"] = "take" /\ temp # NULL
        /\ UNCHANGED <<running, error, bytesWritten, temp, target>>
        /\ c = NULL => queue' = queue
        /\ c # NULL => queue' = [queue EXCEPT !["write"] = Tail(@)]
        /\ done => pc'["write"] = "finish" /\ hold' = hold
        /\ ~done /\ c = NULL => pc'["write"] = "loop" /\ hold' = hold
        /\ ~done /\ c # NULL => pc'["write"] = "write" /\ hold' = [hold EXCEPT !["write"] = c]
    <3>1. pc["write"] = "take" /\ UNCHANGED <<running, error, bytesWritten, temp, target>>
      BY <1>16 DEF WriteTake, flagVars, writeVars
    <3>2. temp # NULL
      BY <3>1 DEF TypeInv, WriteTyped
    <3>3. /\ c = NULL => queue' = queue
          /\ c # NULL => queue' = [queue EXCEPT !["write"] = Tail(@)]
      BY <1>16 DEF WriteTake, deque
    <3>4. /\ done => pc' = [pc EXCEPT !["write"] = "finish"] /\ hold' = hold
          /\ ~done /\ c = NULL => pc' = [pc EXCEPT !["write"] = "loop"] /\ hold' = hold
          /\ ~done /\ c # NULL => pc' = [pc EXCEPT !["write"] = "write"] /\ hold' = [hold EXCEPT !["write"] = c]
      BY <1>16 DEF WriteTake, Go, Keep
    <3>. QED
      BY <1>1, <3>1, <3>2, <3>3, <3>4
  <2>2. c # NULL => /\ queue["write"] # <<>> /\ c = Head(queue["write"]) /\ c \in Good
                    /\ Len(queue["write"]) >= 1 /\ Len(Tail(queue["write"])) = Len(queue["write"]) - 1
    <3>. SUFFICES ASSUME c # NULL
                  PROVE  /\ queue["write"] # <<>> /\ c = Head(queue["write"]) /\ c \in Good
                         /\ Len(queue["write"]) >= 1 /\ Len(Tail(queue["write"])) = Len(queue["write"]) - 1
      OBVIOUS
    <3>1. queue["write"] # <<>> /\ c = Head(queue["write"]) /\ c \in Good /\ queue["write"] \in Seq(Good)
      BY <1>1, FrontType
    <3>. QED
      BY <3>1
  <2>3. ASSUME error = "none", c # NULL
        PROVE  /\ c = ClearItems[k + 1]
               /\ Holds(Tail(queue["write"]), ClearItems, k + 1 + 1)
               /\ ClearGave \in Nat /\ ClearGave >= k + 1
               /\ c.action = "DONE" <=> k = Cuts
    <3>1. /\ Flowing /\ Writing /\ k \in 0 .. Cuts /\ ClearTook = k /\ ClearInOrder
      BY <1>13, <2>1, <2>3
    <3>2. /\ c = ClearItems[k + 1] /\ Holds(Tail(queue["write"]), ClearItems, k + 1 + 1)
      <4>1. Holds(queue["write"], ClearItems, k + 1) /\ k + 1 \in Int /\ queue["write"] \in Seq(Good)
        BY <1>1, <3>1 DEF ClearInOrder
      <4>. QED
        BY <2>2, <2>3, <4>1, HoldsTake
    <3>3. ClearGave \in Nat /\ ClearGave >= k + 1
      BY <1>9, <2>2, <2>3, <3>1 DEF ClearGave
    <3>4. k = Cuts => c.action = "DONE"
      <4>1. Cuts + 1 \in Nat /\ Cuts + 1 > Cuts
        BY <1>9
      <4>. QED
        BY <1>1, <3>2, <4>1, EndItems, DoneType
    <3>5. k # Cuts => c.action = "WRITE"
      <4>. SUFFICES ASSUME k # Cuts PROVE c.action = "WRITE"
        OBVIOUS
      <4>1. k + 1 \in 1 .. Cuts
        BY <1>9, <3>1
      <4>2. ClearItems[k + 1].action = "WRITE"
        BY <1>1, <4>1, ClearItem
      <4>. QED
        BY <3>2, <4>2
    <3>. QED
      BY <3>2, <3>3, <3>4, <3>5
  <2>4. ASSUME error = "none", done
        PROVE  Whole(temp)
    <3>1. /\ Flowing /\ Writing /\ k \in 0 .. Cuts /\ bytesWritten = Written(k)
          /\ DecipherOK /\ EndPassed /\ (valid => newFileSize = file.promised)
          /\ Written(k) = file.promised => Whole(temp)
      BY <1>13, <2>1, <2>4 DEF SizeReached
    <3>2. CASE SizeReached
      <4>1. bytesWritten >= file.promised
        BY <3>1, <3>2 DEF SizeReached
      <4>2. Written(k) <= file.promised /\ Written(k) \in Nat
        BY <1>1, <3>1, WrittenFacts
      <4>3. Written(k) >= file.promised
        BY <3>1, <4>1
      <4>4. Written(k) = file.promised
        BY <1>9, <4>2, <4>3
      <4>. QED
        BY <3>1, <4>4
    <3>3. CASE c # NULL /\ c.action = "DONE"
      <4>1. k = Cuts /\ ClearGave \in Nat /\ ClearGave >= k + 1
        BY <2>3, <2>4, <3>3
      <4>2. pc["crypto"] = "exit"
        <5>1. ClearGave # Cuts
          BY <1>9, <4>1
        <5>2. pc["crypto"] # "flush"
          BY <3>1, <5>1 DEF DecipherOK
        <5>3. ~(ClearGave + HeldCount("crypto") <= Cuts)
          BY <1>9, <4>1 DEF HeldCount
        <5>. QED
          BY <3>1, <5>2, <5>3 DEF DecipherOK
      <4>3. pc["mac"] = "exit"
        BY <3>1, <4>2 DEF EndPassed
      <4>4. file.damage = "intact"
        BY <1>4, <2>4, <4>3 DEF Hashing
      <4>5. Written(Cuts) = file.promised
        BY <1>1, <4>4, AllWritten
      <4>. QED
        BY <3>1, <4>1, <4>5
    <3>. QED
      BY <2>4, <3>2, <3>3
  <2>. HIDE DEF done
  <2>5. Outcome'
    <3>1. CASE done
      <4>1. pc'["write"] = "finish"
        BY <2>1, <3>1
      <4>. QED
        BY <1>2, <1>3, <1>4, <1>5, <2>1, <2>4, <3>1, <4>1 DEF Outcome, Whole, SameBody, FixedParts
    <3>2. CASE ~done
      <4>1. pc'["write"] \in {"loop", "write"}
        BY <2>1, <3>2
      <4>. QED
        BY <1>12, <2>1, <4>1
    <3>. QED
      BY <3>1, <3>2
  <2>6. ASSUME Flowing', Writing'
        PROVE  Writing /\ ClearGave' = ClearGave /\ ClearInOrder' /\ WrittenOK'
    <3>1. ~done /\ error = "none" /\ Flowing
      BY <1>5, <2>1, <2>6 DEF Writing, Flowing, Going, KeepGoing
    <3>2. /\ Flowing /\ Writing /\ hold["write"] = NULL
          /\ k \in 0 .. Cuts /\ ClearTook = k /\ bytesWritten = Written(k)
          /\ ClearInOrder /\ WrittenOK
          /\ valid => newFileSize = file.promised
      BY <1>13, <2>1, <3>1
    <3>3. CASE c = NULL
      <4>1. pc'["write"] = "loop" /\ hold' = hold /\ queue' = queue
        BY <2>1, <3>1, <3>3
      <4>2. ClearTook' = ClearTook /\ ClearGave' = ClearGave
        BY <2>1, <4>1 DEF ClearTook, ClearGave, HeldCount
      <4>3. ClearInOrder'
        BY <1>9, <3>2, <4>1, <4>2 DEF ClearInOrder, Holds
      <4>4. WrittenOK'
        BY <1>2, <1>3, <2>1, <3>2, <4>1 DEF WrittenOK, Written, SumTo, CutSize, FixedParts
      <4>. QED
        BY <3>2, <4>2, <4>3, <4>4
    <3>4. CASE c # NULL
      <4>1. pc'["write"] = "write" /\ hold'["write"] = c /\ queue'["write"] = Tail(queue["write"])
        BY <1>1, <2>1, <3>1, <3>4
      <4>2. /\ c = ClearItems[k + 1]
            /\ Holds(Tail(queue["write"]), ClearItems, k + 1 + 1)
            /\ ClearGave \in Nat /\ ClearGave >= k + 1
            /\ k < Cuts
        <5>1. c.action # "DONE"
          BY <3>1, <3>4 DEF done
        <5>. QED
          BY <1>9, <2>3, <3>1, <3>2, <3>4, <5>1
      <4>3. ClearTook' = k + 1
        BY <1>9, <2>1, <3>4, <4>1 DEF ClearTook, HeldCount
      <4>4. ClearGave' = ClearGave
        <5>1. ClearGave = k + Len(queue["write"])
          BY <3>2 DEF ClearGave
        <5>2. ClearGave' = (k + 1) + Len(Tail(queue["write"]))
          BY <4>1, <4>3 DEF ClearGave
        <5>. DEFINE m == Len(queue["write"])
                    n == Len(Tail(queue["write"]))
        <5>3. k \in Nat /\ m \in Nat /\ n = m - 1
          BY <1>9, <2>2, <3>2, <3>4
        <5>. HIDE DEF k, m, n
        <5>4. k + m = (k + 1) + n
          BY <5>3
        <5>. QED
          BY <5>1, <5>2, <5>4 DEF m, n
      <4>5. ClearInOrder'
        BY <1>9, <4>1, <4>2, <4>3 DEF ClearInOrder, Holds
      <4>6. valid /\ bytesWritten < file.promised
        <5>1. valid
          BY <1>1, <3>2, <4>2, ClearIsChecked
        <5>2. ~(bytesWritten >= file.promised)
          BY <3>1, <3>2, <5>1 DEF done, SizeReached
        <5>3. bytesWritten \in Nat
          BY <1>9, <3>2
        <5>. QED
          BY <1>9, <5>1, <5>2, <5>3
      <4>7. WrittenOK'
        <5>1. /\ temp' = temp /\ temp # NULL
              /\ Len(temp) < Cuts /\ bytesWritten < file.promised
          BY <2>1, <4>2, <4>6
        <5>2. /\ Len(temp) <= Cuts
              /\ \A i \in 1 .. Len(temp) : temp[i] = ClearPiece[i]
              /\ bytesWritten = Written(Len(temp))
              /\ Len(temp) >= 1 => Written(Len(temp) - 1) < file.promised
          BY <3>2, <5>1 DEF WrittenOK
        <5>4. (/\ Len(temp) <= Cuts
               /\ \A i \in 1 .. Len(temp) : temp[i] = ClearPiece[i]
               /\ bytesWritten = Written(Len(temp))
               /\ Len(temp) >= 1 => Written(Len(temp) - 1) < file.promised)'
          BY <1>2, <1>3, <2>1, <5>2 DEF Written, SumTo, CutSize, FixedParts
        <5>3. hold'["write"] = ClearItems'[k + 1] /\ valid' /\ bytesWritten < file.promised
          BY <1>2, <1>9, <4>1, <4>2, <4>6
        <5>. QED
          BY <1>9, <2>1, <4>1, <5>1, <5>3, <5>4 DEF WrittenOK
      <4>. QED
        BY <3>2, <4>4, <4>5, <4>7
    <3>. QED
      BY <3>3, <3>4
  <2>. QED
    BY <1>11, <2>5, <2>6
<1>17. CASE WriteChunk
  <2>. DEFINE k == Len(temp)
              piece == [Data(hold["write"]) EXCEPT !.size = BytesToWrite]
  <2>1. /\ pc["write"] = "write" /\ UNCHANGED <<running, queue, target>> /\ temp # NULL
        /\ \/ /\ pc'["write"] = "loop"
              /\ temp' = Append(temp, piece)
              /\ bytesWritten' = bytesWritten + BytesToWrite
              /\ hold'["write"] = NULL
              /\ UNCHANGED error
           \/ /\ pc'["write"] = "finish"
              /\ error' # "none"
              /\ UNCHANGED <<temp, bytesWritten, hold>>
    <3>1. pc["write"] = "write" /\ UNCHANGED <<running, queue, target>>
      BY <1>17 DEF WriteChunk
    <3>2. temp # NULL
      BY <3>1 DEF TypeInv, WriteTyped
    <3>. QED
      BY <1>1, <1>17, <3>1, <3>2 DEF WriteChunk, Go, Keep
  <2>2. Outcome'
    <3>1. target = NULL
      BY <1>4, <2>1 DEF Outcome
    <3>2. /\ pc'["write"] \in {"loop", "finish"} /\ UNCHANGED <<running, target>>
          /\ pc'["write"] = "finish" => error' # "none"
      BY <2>1
    <3>3. status = NULL /\ NULL # "SUCCESS"
      BY <1>4, <1>5, StatusAssumption DEF Outcome, Statuses
    <3>. HIDE DEF piece
    <3>. QED
      BY <1>2, <1>3, <1>4, <1>5, <3>1, <3>2, <3>3 DEF Outcome
  <2>3. ASSUME Flowing', Writing'
        PROVE  Writing /\ ClearGave' = ClearGave /\ ClearInOrder' /\ WrittenOK'
    <3>1. /\ pc'["write"] = "loop"
          /\ temp' = Append(temp, piece)
          /\ bytesWritten' = bytesWritten + BytesToWrite
          /\ hold'["write"] = NULL
      BY <2>1, <2>3 DEF Flowing, Going, KeepGoing
    <3>2. /\ Writing /\ ClearInOrder /\ WrittenOK
      BY <1>5, <1>7, <2>1, <2>3 DEF Writing
    <3>3. /\ hold["write"] = ClearItems[k + 1] /\ k < Cuts /\ k \in Nat
          /\ bytesWritten < file.promised /\ valid /\ bytesWritten = Written(k)
          /\ \A i \in 1 .. k : temp[i] = ClearPiece[i]
      BY <1>9, <2>1, <3>2 DEF WrittenOK
    <3>4. newFileSize = file.promised
      BY <1>4, <3>3 DEF Hashing
    <3>5. ClearItems[k + 1].size = CutSize(k + 1) /\ k + 1 \in 1 .. Cuts /\ k \in 0 .. Cuts - 1 /\ k + 1 \in Nat
      <4>1. k + 1 \in 1 .. Cuts /\ k \in 0 .. Cuts - 1 /\ k + 1 \in Nat
        BY <1>9, <3>3
      <4>. QED
        BY <1>1, <4>1, ClearItem
    <3>6. BytesToWrite = Written(k + 1) - Written(k) /\ bytesWritten' = Written(k + 1)
      <4>1. BytesToWrite = IF Written(k) + CutSize(k + 1) > file.promised
                           THEN file.promised - Written(k) ELSE CutSize(k + 1)
        BY <3>3, <3>4, <3>5 DEF BytesToWrite
      <4>2. Written(k) < file.promised
        BY <3>3
      <4>3. /\ Written(k + 1) - Written(k) = BytesToWrite
            /\ Written(k) + BytesToWrite = Written(k + 1)
        BY <1>1, <3>5, <4>1, <4>2, WriteNext
      <4>. QED
        BY <3>1, <3>3, <4>3
    <3>7. piece = ClearPiece[k + 1]
      <4>1. k + 1 - 1 = k
        BY <3>3
      <4>. QED
        BY <3>3, <3>5, <3>6, <4>1 DEF ClearPiece
    <3>8. piece \in Chunks
      <4>1. hold["write"] \in Chunks
        BY <1>1, <2>1, GoodFacts DEF TypeInv, HoldsTyped
      <4>2. BytesToWrite \in Int
        <5>1. k \in 0 .. Cuts /\ k + 1 \in 0 .. Cuts
          BY <1>9, <3>3
        <5>2. Written(k) \in Nat /\ Written(k + 1) \in Nat
          BY <1>9, <5>1
        <5>. QED
          BY <3>6, <5>2
      <4>. QED
        BY <4>1, <4>2, DataType
    <3>. HIDE DEF piece
    <3>9. /\ temp' \in Seq(Chunks) /\ Len(temp') = k + 1 /\ temp' # NULL
          /\ \A i \in 1 .. k : temp'[i] = temp[i]
          /\ temp'[k + 1] = piece
      <4>1. temp \in Seq(Chunks)
        BY <1>9, <2>1
      <4>2. temp' \in Seq(Chunks) /\ Len(temp') = k + 1
            /\ (\A i \in 1 .. k : temp'[i] = temp[i])
            /\ temp'[k + 1] = piece
        BY <3>1, <3>8, <4>1
      <4>. QED
        BY <4>2, NullAssumption
    <3>10. ClearTook' = k + 1 /\ ClearTook = k + 1
      <4>1. hold["write"] # NULL
        BY <2>1 DEF TypeInv, HoldsTyped
      <4>. QED
        BY <2>1, <3>1, <3>3, <3>9, <4>1 DEF ClearTook, HeldCount
    <3>11. ClearGave' = ClearGave
      BY <2>1, <3>10 DEF ClearGave
    <3>12. ClearInOrder'
      BY <1>9, <2>1, <3>2, <3>10 DEF ClearInOrder, Holds
    <3>13. WrittenOK'
      <4>1. \A i \in 1 .. k + 1 : temp'[i] = ClearPiece[i]
        <5>. SUFFICES ASSUME NEW i \in 1 .. k + 1 PROVE temp'[i] = ClearPiece[i]
          OBVIOUS
        <5>1. i \in 1 .. k \/ i = k + 1
          BY <3>3
        <5>. QED
          BY <3>3, <3>7, <3>9, <5>1
      <4>2. PICK n \in Nat : n = k
        BY <3>3
      <4>3. /\ n + 1 <= Cuts /\ n + 1 - 1 = n /\ Written(n) < file.promised
            /\ Len(temp') = n + 1 /\ bytesWritten' = Written(n + 1)
            /\ Written(n + 1)' = Written(n + 1) /\ Written(n)' = Written(n)
        <5>1. n \in 0 .. Cuts /\ n + 1 \in 0 .. Cuts
          BY <1>9, <3>3, <4>2
        <5>2. Written(n + 1)' = Written(n + 1) /\ Written(n)' = Written(n)
          BY <1>9, <5>1
        <5>. QED
          BY <1>9, <3>3, <3>6, <3>9, <4>2, <5>2
      <4>4. (/\ Len(temp) <= Cuts
             /\ \A i \in 1 .. Len(temp) : temp[i] = ClearPiece[i]
             /\ bytesWritten = Written(Len(temp))
             /\ Written(Len(temp) - 1) < file.promised)'
        <5>1. Written(Len(temp))' = Written(n + 1)'
          BY <4>3 DEF Written, SumTo, CutSize
        <5>2. Written(Len(temp) - 1)' = Written(n)'
          BY <4>3 DEF Written, SumTo, CutSize
        <5>. QED
          BY <1>9, <3>9, <4>1, <4>2, <4>3, <5>1, <5>2
      <4>. QED
        BY <3>1, <3>9, <4>4 DEF WrittenOK
    <3>. QED
      BY <3>2, <3>11, <3>12, <3>13
  <2>. QED
    BY <1>11, <2>2, <2>3
<1>18. CASE WriteFinish
  <2>1. /\ pc["write"] = "finish" /\ UNCHANGED <<running, error, temp, target>>
        /\ pc'["write"] = IF error = "none" THEN "rename" ELSE "exit"
    BY <1>1, <1>18 DEF WriteFinish, Goto, writeVars, flagVars
  <2>2. Outcome'
    BY <1>2, <1>3, <1>4, <1>5, <2>1 DEF Outcome, Whole, SameBody, FixedParts
  <2>3. ~Writing'
    BY <2>1 DEF Writing
  <2>. QED
    BY <1>11, <2>2, <2>3
<1>19. CASE WriteRename
  <2>1. /\ pc["write"] = "rename" /\ pc'["write"] = "stop" /\ UNCHANGED <<running, error>>
        /\ (target' = temp /\ temp' = NULL) \/ UNCHANGED <<target, temp>>
    BY <1>1, <1>19 DEF WriteRename, Goto, flagVars
  <2>2. Outcome'
    BY <1>2, <1>3, <1>4, <1>5, <2>1 DEF Outcome, Whole, SameBody, FixedParts
  <2>3. ~Writing'
    BY <2>1 DEF Writing
  <2>. QED
    BY <1>11, <2>2, <2>3
<1>20. CASE WriteStop
  <2>1. /\ pc["write"] = "stop" /\ pc'["write"] = "exit" /\ running' = FALSE
        /\ UNCHANGED <<error, temp, target>>
    BY <1>1, <1>20 DEF WriteStop, Goto, writeVars
  <2>2. Outcome'
    BY <1>2, <1>3, <1>4, <1>5, <2>1 DEF Outcome, Whole, SameBody, FixedParts
  <2>3. ~Writing'
    BY <2>1 DEF Writing
  <2>. QED
    BY <1>11, <2>2, <2>3
<1>. QED
  BY <1>1, <1>14, <1>15, <1>16, <1>17, <1>18, <1>19, <1>20

\* The threads start with empty queues.
LEMMA StartKeepsDecInv ==
  ASSUME TypeInv, DecInv, ~Encrypting, StartThreads, StillNothing'
  PROVE  DecInv'
<1>. USE DEF Threads, Queues
<1>1. /\ pc["main"] = "start" /\ Outcome /\ Hashing /\ origFileSize = 0
      /\ pc'["main"] \in {"bar", "join"} /\ \A t \in Threads : pc'[t] = pc[t]
      /\ UNCHANGED <<file, flagVars, hold, threadVars, status, queue>>
  BY DEF StartThreads, Goto, DecInv, TypeInv, PcsTyped, Untouched, ReadTyped
<1>2. UNCHANGED FixedParts /\ Stored' = Stored
  <2>1. UNCHANGED FixedParts
    BY <1>1, FixedPartsFacts
  <2>. QED
    BY <1>1, <2>1 DEF Stored, FixedParts
<1>3. Outcome'
  BY <1>1, <1>2 DEF Outcome, Whole, SameBody, flagVars, threadVars, writeVars, FixedParts
<1>4. Hashing'
  BY <1>1, <1>2 DEF Hashing, HeaderSeal, flagVars, threadVars, macVars
<1>5. ~Flowing'
  BY <1>1 DEF Flowing, threadVars, readVars
<1>. QED
  BY <1>1, <1>3, <1>4, <1>5 DEF DecInv

\* Nothing but main's own counter changes.
LEMMA QuietKeepsDecInv ==
  ASSUME TypeInv, DecInv, ~Encrypting, pc["main"] = "start" => pc'["main"] = "start",
         pc'["main"] = "start" => pc["main"] = "start",
         pc'["main"] = "over" <=> pc["main"] = "over",
         Launched' => Launched,
         \A t \in Threads : pc'[t] = pc[t],
         UNCHANGED <<file, flagVars, queue, hold, threadVars, status>>, StillNothing'
  PROVE  DecInv'
<1>. USE DEF Threads
<1>1. UNCHANGED FixedParts /\ Stored' = Stored
  <2>1. UNCHANGED FixedParts
    BY FixedPartsFacts
  <2>. QED
    BY <2>1 DEF Stored, FixedParts
<1>2. Outcome'
  BY <1>1 DEF DecInv, Outcome, Whole, SameBody, flagVars, threadVars, writeVars, FixedParts
<1>3. Hashing'
  BY <1>1 DEF DecInv, Hashing, HeaderSeal, flagVars, threadVars, macVars
<1>4. pc'["main"] = "start" => Untouched'
  BY DEF DecInv, Untouched, flagVars, threadVars, readVars, cryptoVars, macVars, writeVars
<1>. SUFFICES ASSUME Flowing'
              PROVE  (/\ StoredInOrder /\ SourceOK /\ HashOK /\ EndPassed
                      /\ Writing => PassedInOrder /\ ClearInOrder /\ DecipherOK /\ WrittenOK)'
  BY <1>2, <1>3, <1>4 DEF DecInv
<1>5. /\ StoredInOrder /\ SourceOK /\ HashOK /\ EndPassed
      /\ Writing => PassedInOrder /\ ClearInOrder /\ DecipherOK /\ WrittenOK
  BY DEF DecInv, Flowing, Going, KeepGoing, flagVars, threadVars, readVars
<1>6. UNCHANGED <<ReadCut, ReadPut, AuthTook, AuthGave, ClearTook, ClearGave, Writing>>
  BY <1>1 DEF ReadPut, ReadCut, CutsIn, AuthTook, AuthGave, ClearTook, ClearGave, Writing, HeldCount,
              threadVars, readVars, macVars, writeVars, FixedParts
<1>7. DecipherTook' = DecipherTook
  BY <1>1, <1>6 DEF DecipherTook, HeldCount, threadVars, cryptoVars, FixedParts
<1>8. StoredInOrder' /\ SourceOK'
  BY <1>1, <1>5, <1>6 DEF StoredInOrder, Holds, SourceOK, OnCut, threadVars, readVars, FixedParts
<1>9. HashOK' /\ EndPassed'
  BY <1>1, <1>5 DEF HashOK, EndPassed, threadVars, macVars, FixedParts
<1>10. Writing => PassedInOrder' /\ ClearInOrder'
  BY <1>1, <1>5, <1>6, <1>7 DEF PassedInOrder, ClearInOrder, Holds, FixedParts
<1>11. Writing => DecipherOK'
  BY <1>1, <1>5, <1>6 DEF DecipherOK, LastBlock, HeldCount, threadVars, cryptoVars, FixedParts
<1>12. Writing => WrittenOK'
  BY <1>1, <1>5 DEF WrittenOK, Written, SumTo, CutSize, flagVars, threadVars, writeVars, FixedParts
<1>. QED
  BY <1>6, <1>8, <1>9, <1>10, <1>11, <1>12

\* The steps of main.
LEMMA MainKeepsDecInv ==
  ASSUME TypeInv, DecInv, ~Encrypting, MainStep \/ BarFull, StillNothing'
  PROVE  DecInv'
<1>. USE DEF Threads
<1>1. Outcome /\ Hashing /\ pc \in [Threads \cup {"main"} -> Pcs] /\ error \in Errors \cup {"none"}
  BY DEF DecInv, TypeInv, PcsTyped, FlagsTyped
<1>2. CASE Refuse
  <2>1. /\ pc["main"] = "start" /\ pc'["main"] = "over" /\ \A t \in Threads : pc'[t] = pc[t]
        /\ status' \in {"FILE_TOO_SMALL", "KEY_GENERATION_FAIL", "QUEUE_OPERATION_FAIL"}
        /\ UNCHANGED <<file, flagVars, queue, hold, threadVars>>
    BY <1>1, <1>2 DEF Refuse, Return, Go
  <2>2. Untouched /\ status' # NULL /\ status' # "SUCCESS"
    BY <2>1, StatusAssumption DEF DecInv, Statuses, Errors
  <2>3. UNCHANGED FixedParts /\ Stored' = Stored
    <3>1. UNCHANGED FixedParts
      BY <2>1, FixedPartsFacts
    <3>. QED
      BY <3>1 DEF Stored, FixedParts
  <2>4. Outcome'
    BY <2>1, <2>2 DEF Outcome, Untouched, flagVars, threadVars, writeVars
  <2>5. Hashing'
    BY <1>1, <2>1, <2>3 DEF Hashing, HeaderSeal, flagVars, threadVars, macVars
  <2>. QED
    BY <2>1, <2>4, <2>5 DEF DecInv, Flowing, Going, Launched
<1>3. CASE JoinAndCleanUp
  <2>1. /\ pc["main"] = "join" /\ pc'["main"] = "over" /\ \A t \in Threads : pc[t] = "exit" /\ pc'[t] = "exit"
        /\ status' = IF error = "none" THEN "SUCCESS" ELSE error
        /\ temp' = IF error = "none" THEN temp ELSE NULL
        /\ UNCHANGED <<file, flagVars, hold, macVars, target>>
        /\ queue' = [q \in Queues |-> <<>>]
    BY <1>1, <1>3 DEF JoinAndCleanUp, Return, Go
  <2>2. UNCHANGED FixedParts /\ Stored' = Stored
    <3>1. UNCHANGED FixedParts
      BY <2>1, FixedPartsFacts
    <3>. QED
      BY <3>1 DEF Stored, FixedParts
  <2>3. error = "none" => file.damage = "intact" /\ (target # NULL \/ Whole(temp))
    BY <1>1, <2>1 DEF Outcome, Hashing
  <2>4. status' # NULL /\ (status' = "SUCCESS" <=> error = "none")
    BY <1>1, <2>1, StatusAssumption DEF Statuses, Errors
  <2>5. Outcome'
    BY <1>1, <2>1, <2>2, <2>3, <2>4 DEF Outcome, Whole, SameBody, flagVars, FixedParts
  <2>6. Hashing'
    <3>1. queue'["mac"] = <<>> /\ <<>> \in Seq(Stored)
      BY <2>1 DEF Queues
    <3>. QED
      BY <1>1, <2>1, <2>2, <3>1 DEF Hashing, HeaderSeal, flagVars, macVars
  <2>. QED
    BY <2>1, <2>5, <2>6 DEF DecInv, Flowing, Going, Launched
<1>4. CASE LeaveBar \/ BarFull
  <2>1. /\ pc["main"] = "bar" /\ pc'["main"] = "join" /\ \A t \in Threads : pc'[t] = pc[t]
        /\ UNCHANGED <<file, flagVars, queue, hold, threadVars, status>>
    BY <1>1, <1>4 DEF LeaveBar, BarFull, Goto
  <2>. QED
    BY <2>1, QuietKeepsDecInv DEF Launched
<1>. QED
  BY <1>2, <1>3, <1>4, StartKeepsDecInv DEF MainStep

\* Every step of a decryption preserves the invariant.
LEMMA DecryptStep ==
  TypeInv /\ DecInv /\ ~Encrypting /\ [Next]_vars => DecInv'
<1>. SUFFICES ASSUME TypeInv, DecInv, ~Encrypting, [Next]_vars PROVE DecInv'
  OBVIOUS
<1>1. StillNothing'
  BY NothingStays
<1>2. CASE UNCHANGED vars
  <2>1. UNCHANGED <<file, flagVars, queue, hold, threadVars, status, pc>>
    BY <1>2 DEF vars, pipelineVars
  <2>2. UNCHANGED Launched
    BY <2>1 DEF Launched
  <2>. QED
    BY <1>1, <2>1, <2>2, QuietKeepsDecInv
<1>3. CASE ReadStep
  BY <1>1, <1>3, ReadOpenKeepsDecInv, ReadKeepsDecInv
<1>. QED
  BY <1>1, <1>2, <1>3, CryptoKeepsDecInv, MacKeepsDecInv, WriteKeepsDecInv, MainKeepsDecInv
  DEF Next, Sleep, Terminated

-----------------------------------------------------------------------------
(* What follows for the files, the status and the threads *)

\* Whatever failed or was damaged, a target that was replaced holds every byte
\* the header promises.
LEMMA DecryptCommits ==
  DecInv => CommitIsAsPromised
  BY DEF DecInv, Outcome, Whole, SameBody, CommitIsAsPromised

\* SUCCESS is only returned for an intact file, with the plain file in place.
LEMMA DecryptSucceeds ==
  DecInv => SuccessIsReal
<1>. SUFFICES ASSUME DecInv, status = "SUCCESS"
              PROVE  /\ file.damage = "intact"
                     /\ target = Expected \/ (target = NULL /\ temp = Expected)
  BY DEF SuccessIsReal
<1>1. /\ file.damage = "intact" /\ (target # NULL \/ Whole(temp))
      /\ target # NULL => Whole(target)
  BY DEF DecInv, Outcome
<1>. QED
  BY <1>1 DEF Whole, SameBody

\* While the run goes on, the thread behind every queue is there or the queue
\* has room: the read thread's last chunk is taken before the MAC thread ends,
\* and the end passes the MAC thread before it reaches the crypto thread.
LEMMA DecryptOrphans ==
  ASSUME TypeInv, DecInv, ~Encrypting, NEW t \in Threads, Orphaned(t)
  PROVE  ~KeepGoing
<1>. USE DEF Threads, Queues
<1>1. \/ t = "read" /\ pc["read"] \in {"queue", "flush"} /\ pc["mac"] = "exit"
         /\ Len(queue["mac"]) = Capacity
      \/ t = "crypto" /\ pc["crypto"] = "flush" /\ pc["write"] = "exit"
      \/ t = "mac" /\ pc["mac"] = "flush" /\ pc["crypto"] = "exit"
  BY DEF Orphaned, Sleeping, WaitsOn, ReadOut, CryptoOut, MacOut, queueIsFull, TypeInv, PcsTyped, MacPcs
<1>. SUFFICES ASSUME KeepGoing PROVE FALSE
  OBVIOUS
<1>2. pc["main"] # "start" /\ pc["main"] # "over"
  BY <1>1 DEF DecInv, Outcome, Untouched
<1>3. Going /\ Launched /\ ~TooSmall
  BY <1>2 DEF Going, Launched, TypeInv, PcsTyped, MainPcs
<1>4. StoredInOrder /\ EndPassed /\ Outcome
  <2>1. origFileSize # 0
    BY <1>1, <1>3 DEF DecInv, StillNothing, NothingCame
  <2>. QED
    BY <1>3, <2>1 DEF DecInv, Flowing
<1>5. CASE t = "read"
  <2>1. ReadCut \in 0 .. Cuts + 2 /\ Cuts \in Nat /\ Capacity \in Nat /\ Capacity >= 2
    BY <1>3, ReadCutRange, CutsFacts, PipelineAssumption
  <2>2. ReadPut \in Int /\ ReadPut <= Cuts + 2
    BY <1>1, <1>5, <2>1 DEF ReadPut, HeldCount
  <2>3. AuthTook = Cuts + 2
    BY <1>1, <1>5 DEF AuthTook
  <2>. QED
    BY <1>1, <1>4, <1>5, <2>1, <2>2, <2>3 DEF StoredInOrder
<1>6. CASE t = "crypto"
  BY <1>1, <1>4, <1>6 DEF Outcome, KeepGoing
<1>7. CASE t = "mac"
  BY <1>1, <1>4, <1>7 DEF EndPassed
<1>. QED
  BY <1>1, <1>5, <1>6, <1>7

\* The items are numbered as the pieces of the file are.
LEMMA PieceNumbers ==
  ASSUME TypeInv, ~Encrypting, ~TooSmall
  PROVE  /\ Numbered(StoredItems, Cuts) /\ Numbered(PassedItems, Cuts)
         /\ \A k \in 1 .. Cuts : ClearItems[k].id = k /\ ClearPiece[k].id = k
         /\ \A k \in Nat : k > Cuts => ClearItems[k].id < 1
<1>1. Cuts \in Nat
  BY CutsFacts
<1>2. DONE.id = -3 /\ MacId = -2
  BY DEF DONE, Chunk, NoId, MacId
<1>3. \A k \in 0 .. Cuts : StoredItems[k].id = k /\ PassedItems[k].id = k
  BY StoredItem
<1>4. ASSUME NEW k \in Nat, k > Cuts
      PROVE  StoredItems[k].id < 1 /\ PassedItems[k].id < 1 /\ ClearItems[k].id < 1
  <2>1. PassedItems[k] = DONE /\ ClearItems[k] = DONE
    BY <1>4, EndItems
  <2>2. CASE k = Cuts + 1
    BY <1>2, <2>1, <2>2, EndItems
  <2>3. CASE k # Cuts + 1
    <3>1. StoredItems[k] = DONE
      BY <1>1, <1>4, <2>3 DEF StoredItems
    <3>. QED
      BY <1>2, <2>1, <3>1
  <2>. QED
    BY <2>2, <2>3
<1>5. ASSUME NEW k \in 1 .. Cuts PROVE ClearItems[k].id = k /\ ClearPiece[k].id = k
  <2>1. ClearItems[k].id = k
    BY ClearItem
  <2>2. ClearPiece[k] = [Data(ClearItems[k]) EXCEPT !.size = Written(k) - Written(k - 1)]
    BY <1>1 DEF ClearPiece
  <2>. DEFINE c == PassedItems[k]
              x == ChainOf(PassedItems[k - 1])
              size == Written(k) - Written(k - 1)
  <2>3. ClearItems[k] = Decipher(c, x) /\ c = [StoredItems[k] EXCEPT !.action = "WRITE"]
    <3>1. k \in 0 .. Cuts
      BY <1>1
    <3>2. c = [StoredItems[k] EXCEPT !.action = "WRITE"]
      BY <3>1, StoredItem
    <3>. QED
      BY <3>2, ClearItem
  <2>4. StoredItems[k] = Chunk("GEN_MAC", k, DataSeal(k), <<>>, CutSize(k))
    BY <1>1 DEF StoredItems
  <2>. HIDE DEF x, size
  <2>5. c = Chunk("WRITE", k, DataSeal(k), <<>>, CutSize(k))
    BY <2>3, <2>4 DEF Chunk
  <2>. DEFINE seal == IF c.seal = <<x>> THEN <<>> ELSE <<Garbled>>
  <2>6. [Data(Decipher(c, x)) EXCEPT !.size = size].id = k
    <3>1. Decipher(c, x) = [c EXCEPT !.seal = seal]
      BY DEF Decipher
    <3>. HIDE DEF c, seal
    <3>2. Decipher(c, x) = Chunk("WRITE", k, seal, <<>>, CutSize(k))
      BY <2>5, <3>1 DEF Chunk
    <3>3. [Data(Chunk("WRITE", k, seal, <<>>, CutSize(k))) EXCEPT !.size = size].id = k
      BY DEF Data, Chunk
    <3>. QED
      BY <3>2, <3>3
  <2>. HIDE DEF c
  <2>. QED
    BY <2>1, <2>2, <2>3, <2>6 DEF size
<1>6. Numbered(StoredItems, Cuts)
  BY <1>1, <1>3, <1>4 DEF Numbered
<1>7. Numbered(PassedItems, Cuts)
  BY <1>1, <1>3, <1>4 DEF Numbered
<1>. QED
  BY <1>4, <1>5, <1>6, <1>7

\* What the read thread has cut off, as StreamInOrder counts it.
LEMMA CutsRead ==
  ASSUME TypeInv, ~Encrypting, ~TooSmall
  PROVE  DataBefore(ReadCut, Cuts) = ChunksRead
<1>1. /\ bytesRead \in Nat /\ file.size \in Nat /\ Cuts \in Nat \ {0} /\ BodySize \in Nat
      /\ file.size = HeaderSize + BodySize + Block /\ HeaderSize \in Nat \ {0} /\ Block \in Nat \ {0}
      /\ bytesRead = 0 \/ bytesRead = file.size \/ (bytesRead >= HeaderSize /\ bytesRead + Block <= file.size)
  BY CutsFacts DEF TypeInv, ReadTyped
<1>2. ReadCut \in 0 .. Cuts + 2
  BY ReadCutRange
<1>3. CASE bytesRead = 0
  BY <1>1, <1>3 DEF ReadCut, CutsIn, DataBefore, ChunksRead
<1>4. CASE bytesRead = file.size
  <2>1. ReadCut = Cuts + 2 /\ ~(bytesRead <= HeaderSize) /\ bytesRead - HeaderSize - Block = BodySize
    BY <1>1, <1>4 DEF ReadCut, CutsIn
  <2>2. ChunksRead = DataChunks(BodySize)
    BY <1>4, <2>1 DEF ChunksRead
  <2>. QED
    BY <1>1, <2>1, <2>2 DEF DataBefore, Cuts
<1>5. CASE bytesRead # 0 /\ bytesRead # file.size
  <2>. DEFINE n == DataChunks(bytesRead - HeaderSize)
  <2>1. ReadCut = 1 + n /\ n \in Nat
    BY <1>1, <1>5, DataChunksFacts DEF ReadCut, CutsIn
  <2>2. ChunksRead = n
    <3>1. CASE bytesRead <= HeaderSize
      <4>1. bytesRead - HeaderSize = 0
        BY <1>1, <1>5, <3>1
      <4>2. DataChunks(0) = 0
        <5>1. MaxChunk \in Nat \ {0} /\ 0 * MaxChunk = 0
          BY PipelineAssumption
        <5>. QED
          BY <5>1, DataChunksUnique
      <4>. QED
        BY <3>1, <4>1, <4>2 DEF ChunksRead
    <3>2. CASE ~(bytesRead <= HeaderSize)
      BY <1>5, <3>2 DEF ChunksRead
    <3>. QED
      BY <3>1, <3>2
  <2>. HIDE DEF n
  <2>3. n <= Cuts \/ n = Cuts + 1
    BY <1>1, <1>2, <2>1
  <2>4. n <= Cuts
    <3>1. bytesRead - HeaderSize \in Nat /\ bytesRead - HeaderSize <= BodySize
      BY <1>1, <1>5
    <3>2. n * MaxChunk < (bytesRead - HeaderSize) + MaxChunk
      BY <3>1, DataChunksFacts DEF n
    <3>3. BodySize <= Cuts * MaxChunk /\ MaxChunk \in Nat
      BY CutsFacts
    <3>4. n * MaxChunk < Cuts * MaxChunk + MaxChunk
      BY <1>1, <2>1, <3>1, <3>2, <3>3
    <3>. QED
      BY <1>1, <2>1, <3>4, MulLess
  <2>. QED
    BY <1>1, <2>1, <2>2, <2>4 DEF DataBefore
<1>. QED
  BY <1>3, <1>4, <1>5

\* As long as nothing can be read there is nothing on its way but DONE.
LEMMA NothingInOrder ==
  ASSUME TypeInv, NothingCame, ~Encrypting, temp # NULL, bytesRead = 0
  PROVE  Runs(OnTheWay, 0, ChunksRead)
<1>. USE DEF Threads, Queues
<1>. DEFINE d == [i \in 0 .. 8 |-> 0]
<1>1. Runs(<<>>, 0, 0)
  BY DEF Runs
<1>2. Runs(<<DONE>>, 0, 0)
  <2>1. DONE.id = -3
    BY DEF DONE, Chunk, NoId
  <2>2. DOMAIN <<DONE>> = {1} /\ <<DONE>>[1] = DONE
    OBVIOUS
  <2>. HIDE DEF DONE
  <2>3. \A i \in DOMAIN <<DONE>> : ~(<<DONE>>[i].id >= 1)
    BY <2>1, <2>2
  <2>4. 0 + 1 .. 0 = {}
    OBVIOUS
  <2>. QED
    BY <2>3, <2>4 DEF Runs
<1>3. temp = <<>> /\ temp \in Seq(Chunks)
  <2>1. <<>> \in Seq(Chunks)
    OBVIOUS
  <2>2. temp = <<>>
    BY DEF NothingCame
  <2>. QED
    BY ONLY <2>1, <2>2
<1>4. \A t \in Threads : HeldBy(t) = <<>>
  BY DEF NothingCame, HeldBy
<1>5. queue["crypto"] = <<>> /\ queue["write"] = <<>> /\ queue["mac"] \in {<<>>, <<DONE>>}
  BY DEF NothingCame
<1>6. d \in [0 .. 8 -> Nat] /\ \A i \in 0 .. 8 : d[i] = 0
  OBVIOUS
<1>. HIDE DEF d
<1>7. RunsApart(d)
  <2>1. \A t \in Threads : Runs(HeldBy(t), 0, 0)
    BY <1>1, <1>4
  <2>2. \A q \in Queues : Runs(queue[q], 0, 0)
    BY <1>1, <1>2, <1>5
  <2>3. Upstream[1] = "crypto" /\ Upstream[2] = "mac"
    BY DEF Upstream
  <2>. QED
    BY <1>1, <1>3, <1>6, <2>1, <2>2, <2>3 DEF RunsApart
<1>8. Runs(OnTheWay, 0, d[8])
  BY <1>3, <1>7, RunsOnTheWay
<1>9. ChunksRead = 0
  <2>1. HeaderSize \in Nat
    BY PipelineAssumption DEF HeaderSize
  <2>. QED
    BY <2>1 DEF ChunksRead
<1>. QED
  BY <1>6, <1>8, <1>9

\* The chunks read are on their way in the order of the file, whatever is
\* wrong with what they contain.
LEMMA DecryptInOrder ==
  ASSUME TypeInv, DecInv, ~Encrypting
  PROVE  StreamInOrder
<1>. SUFFICES ASSUME Started, KeepGoing, pc["write"] \in {"loop", "take", "write"}
              PROVE  Runs(OnTheWay, 0, ChunksRead)
  BY DEF StreamInOrder
<1>. USE DEF Threads, Queues
<1>. SUFFICES ASSUME origFileSize # 0 PROVE Runs(OnTheWay, 0, ChunksRead)
  <2>1. origFileSize = 0 => NothingCame /\ temp # NULL /\ bytesRead = 0
    BY DEF DecInv, StillNothing, Going, Launched, Started, TypeInv, PcsTyped, ReadTyped, WriteTyped
  <2>. QED
    BY <2>1, NothingInOrder
<1>0. Flowing /\ Writing /\ ~TooSmall
  BY DEF Flowing, Going, Writing, Launched, Started, TypeInv, PcsTyped
<1>1. /\ StoredInOrder /\ SourceOK /\ HashOK
      /\ PassedInOrder /\ ClearInOrder /\ DecipherOK /\ WrittenOK
  BY <1>0 DEF DecInv
<1>. DEFINE D(x) == DataBefore(x, Cuts)
<1>2. Cuts \in Nat \ {0} /\ ReadCut \in 0 .. Cuts + 2
  BY <1>0, CutsFacts, ReadCutRange
<1>3. /\ temp \in Seq(Chunks) /\ digest \in Seq(Pieces)
      /\ queue["crypto"] \in Seq(Chunks) /\ queue["mac"] \in Seq(Chunks) /\ queue["write"] \in Seq(Chunks)
  <2>1. temp # NULL
    BY DEF TypeInv, WriteTyped
  <2>2. \A q \in Queues : queue[q] \in Seq(Good)
    BY DEF TypeInv, QueuesTyped
  <2>3. Good \subseteq Chunks
    BY GoodFacts
  <2>4. \A q \in Queues : queue[q] \in Seq(Chunks)
    BY <2>2, <2>3
  <2>. QED
    BY <2>1, <2>4 DEF TypeInv, WriteTyped, MacTyped
<1>4. /\ Numbered(StoredItems, Cuts) /\ Numbered(PassedItems, Cuts)
      /\ \A k \in 1 .. Cuts : ClearItems[k].id = k /\ ClearPiece[k].id = k
      /\ \A k \in Nat : k > Cuts => ClearItems[k].id < 1
  BY <1>0, PieceNumbers
<1>5. /\ temp # NULL /\ Len(temp) \in Nat /\ Len(digest) \in Nat
      /\ Len(queue["write"]) \in Nat
      /\ ClearTook = Len(temp) + HeldCount("write") /\ ClearGave = ClearTook + Len(queue["write"])
  BY <1>3, FileNotNull DEF ClearTook, ClearGave
<1>6. /\ ReadPut \in Nat /\ AuthTook \in Nat /\ AuthGave \in Nat
      /\ ClearTook \in Nat /\ ClearGave \in Nat /\ DecipherTook \in Nat
  <2>1. ClearTook \in Nat /\ ClearGave \in Nat
    <3>1. HeldCount("write") \in Nat
      BY DEF HeldCount
    <3>2. ClearTook \in Nat
      BY <1>5, <3>1
    <3>. QED
      BY <1>5, <3>2
  <2>2. DecipherTook \in Nat
    BY <1>2, <2>1 DEF DecipherTook, HeldCount
  <2>3. AuthTook \in Nat
    BY <1>2, <1>5 DEF AuthTook
  <2>4. ReadPut \in Nat /\ AuthGave \in Nat
    <3>1. ReadPut = AuthTook + Len(queue["mac"])
      <4>1. ReadPut \in Int
        BY <1>2 DEF ReadPut, HeldCount
      <4>. QED
        BY <1>1, <1>3, <2>3, <4>1 DEF StoredInOrder
    <3>2. AuthGave = DecipherTook + Len(queue["crypto"])
      <4>1. AuthGave \in Int
        BY <1>2, <1>5 DEF AuthGave, HeldCount
      <4>. QED
        BY <1>1, <1>3, <2>2, <4>1 DEF PassedInOrder
    <3>. QED
      BY <1>2, <1>3, <2>2, <2>3, <3>1, <3>2
  <2>. QED
    BY <2>1, <2>2, <2>3, <2>4
\* The items of what the crypto thread passes on, one further than the rest.
<1>. DEFINE clear == [k \in Nat |-> IF k = 0 THEN DONE ELSE ClearItems[k]]
            pieces == [k \in Nat |-> IF k \in 1 .. Cuts THEN ClearPiece[k] ELSE DONE]
<1>7. Numbered(clear, Cuts) /\ Numbered(pieces, Cuts)
  <2>1. DONE.id = -3
    BY DEF DONE, Chunk, NoId
  <2>2. \A k \in Nat : IF k \in 1 .. Cuts THEN clear[k].id = k ELSE clear[k].id < 1
    BY <1>2, <1>4, <2>1
  <2>3. \A k \in Nat : IF k \in 1 .. Cuts THEN pieces[k].id = k ELSE pieces[k].id < 1
    BY <1>2, <1>4, <2>1
  <2>. HIDE DEF clear, pieces
  <2>. QED
    BY <2>2, <2>3 DEF Numbered
<1>8. Runs(temp, 0, D(Len(temp) + 1))
  <2>1. Len(temp) <= Cuts /\ \A i \in 1 .. Len(temp) : temp[i] = ClearPiece[i]
    BY <1>1, <1>5 DEF WrittenOK
  <2>2. Holds(temp, pieces, 1)
    <3>1. ASSUME NEW i \in 1 .. Len(temp) PROVE temp[i] = pieces[1 + i - 1]
      <4>1. 1 + i - 1 = i /\ i \in 1 .. Cuts /\ i \in Nat
        BY <1>2, <1>5, <2>1
      <4>. QED
        BY <2>1, <4>1
    <3>. HIDE DEF pieces
    <3>. QED
      BY <3>1 DEF Holds
  <2>3. Len(temp) + 1 = 1 + Len(temp) /\ Len(temp) + 1 \in Nat
    BY <1>5
  <2>. HIDE DEF pieces
  <2>4. Runs(temp, D(1), D(Len(temp) + 1))
    BY <1>2, <1>3, <1>7, <2>2, <2>3, RunsOfItems
  <2>. QED
    BY <1>2, <2>4 DEF DataBefore
<1>9. /\ D(Len(temp) + 1) <= D(ClearTook + 1)
      /\ Runs(HeldBy("write"), D(Len(temp) + 1), D(ClearTook + 1))
  <2>1. \/ hold["write"] = NULL /\ ClearTook + 1 = Len(temp) + 1
        \/ /\ hold["write"] # NULL /\ hold["write"] = clear[Len(temp) + 1]
           /\ ClearTook + 1 = Len(temp) + 1 + 1
    BY <1>1, <1>5 DEF WrittenOK, HeldCount
  <2>2. Len(temp) + 1 \in Nat /\ ClearTook + 1 \in Nat
    BY <1>5, <1>6
  <2>. HIDE DEF clear
  <2>. QED
    BY <1>2, <1>7, <2>1, <2>2, RunsHeld
<1>10. /\ D(ClearTook + 1) <= D(ClearGave + 1)
       /\ Runs(queue["write"], D(ClearTook + 1), D(ClearGave + 1))
  <2>1. Holds(queue["write"], clear, ClearTook + 1)
    <3>1. ASSUME NEW i \in 1 .. Len(queue["write"])
          PROVE  queue["write"][i] = clear[ClearTook + 1 + i - 1]
      <4>1. ClearTook + 1 + i - 1 \in Nat \ {0}
        BY <1>5, <1>6
      <4>2. queue["write"][i] = ClearItems[ClearTook + 1 + i - 1]
        BY <1>1 DEF ClearInOrder, Holds
      <4>. QED
        BY <4>1, <4>2
    <3>. HIDE DEF clear
    <3>. QED
      BY <3>1 DEF Holds
  <2>2. ClearTook + 1 \in Nat /\ ClearGave + 1 \in Nat /\ ClearGave + 1 = ClearTook + 1 + Len(queue["write"])
    BY <1>5, <1>6
  <2>. HIDE DEF clear
  <2>. QED
    BY <1>2, <1>3, <1>7, <2>1, <2>2, RunsOfItems
<1>11. /\ D(ClearGave + 1) <= D(DecipherTook)
       /\ Runs(HeldBy("crypto"), D(ClearGave + 1), D(DecipherTook))
  <2>1. \/ hold["crypto"] = NULL /\ D(ClearGave + 1) = D(DecipherTook)
        \/ /\ hold["crypto"] # NULL /\ hold["crypto"] = clear[ClearGave + 1]
           /\ DecipherTook = ClearGave + 1 + 1
    <3>1. CASE hold["crypto"] # NULL
      <4>1. hold["crypto"] = ClearItems[ClearGave + 1] /\ ~header /\ pc["crypto"] \notin {"flush", "exit"}
        BY <1>1, <3>1 DEF DecipherOK
      <4>2. DecipherTook = 1 + ClearGave + 1
        BY <1>6, <3>1, <4>1 DEF DecipherTook, HeldCount
      <4>. QED
        BY <1>6, <3>1, <4>1, <4>2
    <3>2. CASE hold["crypto"] = NULL
      <4>1. CASE pc["crypto"] \in {"flush", "exit"}
        <5>1. DecipherTook = Cuts + 2 /\ ClearGave \in {Cuts, Cuts + 1}
          BY <1>1, <4>1 DEF DecipherOK, DecipherTook
        <5>. QED
          BY <1>2, <3>2, <5>1 DEF DataBefore
      <4>2. CASE pc["crypto"] \notin {"flush", "exit"} /\ header
        <5>1. DecipherTook = 0 /\ ClearGave = 0
          BY <1>1, <4>2 DEF DecipherOK, DecipherTook
        <5>. QED
          BY <1>2, <3>2, <5>1 DEF DataBefore
      <4>3. CASE pc["crypto"] \notin {"flush", "exit"} /\ ~header
        <5>1. DecipherTook = ClearGave + 1
          BY <1>6, <3>2, <4>3 DEF DecipherTook, HeldCount
        <5>. QED
          BY <3>2, <5>1
      <4>. QED
        BY <4>1, <4>2, <4>3
    <3>. QED
      BY <3>1, <3>2
  <2>2. ClearGave + 1 \in Nat
    BY <1>6
  <2>. HIDE DEF clear
  <2>. QED
    BY <1>2, <1>6, <1>7, <2>1, <2>2, RunsHeld
<1>12. D(DecipherTook) <= D(AuthGave) /\ Runs(queue["crypto"], D(DecipherTook), D(AuthGave))
  <2>1. AuthGave = DecipherTook + Len(queue["crypto"]) /\ Holds(queue["crypto"], PassedItems, DecipherTook)
    BY <1>1, <1>3, <1>6 DEF PassedInOrder
  <2>. QED
    BY <1>2, <1>3, <1>4, <1>6, <2>1, RunsOfItems
<1>13. D(AuthGave) <= D(AuthTook) /\ Runs(HeldBy("mac"), D(AuthGave), D(AuthTook))
  <2>1. pc["mac"] \in {"start", "auth", "take", "hash", "pass", "final", "stored", "fetch",
                       "verdict", "flush", "exit"}
    BY DEF TypeInv, PcsTyped, MacPcs
  <2>2. CASE hold["mac"] # NULL /\ pc["mac"] = "hash"
    <3>1. hold["mac"] = StoredItems[Len(digest)] /\ AuthGave = Len(digest) /\ AuthTook = Len(digest) + 1
      BY <1>1, <2>2 DEF HashOK, AuthGave, AuthTook
    <3>. QED
      BY <1>2, <1>4, <1>5, <1>6, <2>2, <3>1, RunsHeld
  <2>3. CASE hold["mac"] # NULL /\ pc["mac"] \in {"auth", "take", "pass"}
    <3>1. /\ hold["mac"] = PassedItems[Len(digest) - 1] /\ AuthGave = Len(digest) - 1
          /\ AuthTook = AuthGave + 1
      BY <1>1, <1>5, <2>3 DEF HashOK, AuthGave, AuthTook, HeldCount
    <3>. QED
      BY <1>2, <1>4, <1>6, <2>3, <3>1, RunsHeld
  <2>4. CASE hold["mac"] # NULL /\ pc["mac"] = "verdict"
    <3>1. /\ hold["mac"] = StoredItems[Cuts + 1] /\ AuthGave = Cuts + 1
          /\ AuthTook = Cuts + 2
      BY <1>1, <2>4 DEF HashOK, AuthGave, AuthTook
    <3>2. AuthTook = AuthGave + 1
      BY <1>2, <3>1
    <3>. QED
      BY <1>2, <1>4, <1>6, <2>4, <3>1, <3>2, RunsHeld
  <2>5. CASE hold["mac"] = NULL
    <3>1. D(AuthGave) = D(AuthTook)
      <4>1. CASE pc["mac"] = "hash"
        BY <2>5, <4>1 DEF TypeInv, HoldsTyped
      <4>2. CASE pc["mac"] \in {"verdict", "flush", "exit"}
        <5>1. AuthTook = Cuts + 2 /\ AuthGave \in {Cuts + 1, Cuts + 2}
          BY <1>1, <4>2 DEF HashOK, AuthGave, AuthTook
        <5>. QED
          BY <1>2, <5>1 DEF DataBefore
      <4>3. CASE pc["mac"] \in {"start", "auth", "take", "pass", "final", "stored", "fetch"}
        <5>1. AuthTook = AuthGave
          BY <1>5, <2>5, <4>3 DEF AuthGave, AuthTook, HeldCount
        <5>. QED
          BY <5>1
      <4>. QED
        BY <2>1, <4>1, <4>2, <4>3
    <3>. QED
      BY <1>2, <1>4, <1>6, <2>5, <3>1, RunsHeld
  <2>6. pc["mac"] \in {"start", "final", "stored", "fetch", "flush", "exit"} => hold["mac"] = NULL
    BY <1>1 DEF HashOK
  <2>. QED
    BY <2>1, <2>2, <2>3, <2>4, <2>5, <2>6
<1>14. D(AuthTook) <= D(ReadPut) /\ Runs(queue["mac"], D(AuthTook), D(ReadPut))
  <2>1. ReadPut = AuthTook + Len(queue["mac"]) /\ Holds(queue["mac"], StoredItems, AuthTook)
    BY <1>1, <1>3, <1>6 DEF StoredInOrder
  <2>. QED
    BY <1>2, <1>3, <1>4, <1>6, <2>1, RunsOfItems
<1>15. D(ReadPut) <= D(ReadCut) /\ Runs(HeldBy("read"), D(ReadPut), D(ReadCut))
  <2>1. CASE pc["read"] = "queue"
    <3>1. hold["read"] # NULL /\ hold["read"] = StoredItems[ReadCut - 1] /\ ReadPut = ReadCut - 1
      BY <1>1, <1>2, <2>1 DEF SourceOK, ReadPut, HeldCount, TypeInv, HoldsTyped
    <3>2. ReadCut = ReadPut + 1 /\ ReadCut \in Nat
      BY <1>2, <3>1
    <3>. QED
      BY <1>2, <1>4, <1>6, <2>1, <3>1, <3>2, RunsHeld
  <2>2. CASE pc["read"] # "queue"
    <3>1. hold["read"] = NULL
      BY <1>1, <2>2 DEF SourceOK
    <3>2. pc["read"] = "exit" => ReadCut = Cuts + 2
      BY <1>0, <1>1, CutsFacts DEF SourceOK, ReadCut, CutsIn
    <3>3. ReadPut = ReadCut \/ (ReadPut = Cuts + 3 /\ ReadCut = Cuts + 2)
      BY <1>2, <3>1, <3>2 DEF ReadPut, HeldCount
    <3>4. D(ReadPut) = D(ReadCut) /\ ReadCut \in Nat
      BY <1>2, <3>3 DEF DataBefore
    <3>. QED
      BY <1>2, <1>4, <1>6, <3>1, <3>4, RunsHeld
  <2>. QED
    BY <2>1, <2>2
<1>16. /\ D(Len(temp) + 1) \in Nat /\ D(ClearTook + 1) \in Nat /\ D(ClearGave + 1) \in Nat
       /\ D(DecipherTook) \in Nat /\ D(AuthGave) \in Nat /\ D(AuthTook) \in Nat
       /\ D(ReadPut) \in Nat /\ D(ReadCut) \in Nat
  BY <1>2, <1>5, <1>6 DEF DataBefore
<1>. DEFINE d == [i \in 0 .. 8 |-> CASE i = 0 -> 0 [] i = 1 -> D(Len(temp) + 1)
                                     [] i = 2 -> D(ClearTook + 1) [] i = 3 -> D(ClearGave + 1)
                                     [] i = 4 -> D(DecipherTook) [] i = 5 -> D(AuthGave)
                                     [] i = 6 -> D(AuthTook) [] i = 7 -> D(ReadPut)
                                     [] i = 8 -> D(ReadCut)]
<1>. HIDE DEF D, clear, pieces
<1>17. /\ d[0] = 0 /\ d[1] = D(Len(temp) + 1) /\ d[2] = D(ClearTook + 1) /\ d[3] = D(ClearGave + 1)
       /\ d[4] = D(DecipherTook) /\ d[5] = D(AuthGave) /\ d[6] = D(AuthTook) /\ d[7] = D(ReadPut)
       /\ d[8] = D(ReadCut) /\ d \in [0 .. 8 -> Nat]
  BY <1>16
<1>. HIDE DEF d
<1>18. /\ d[0] <= d[1] /\ d[1] <= d[2] /\ d[2] <= d[3] /\ d[3] <= d[4]
       /\ d[4] <= d[5] /\ d[5] <= d[6] /\ d[6] <= d[7] /\ d[7] <= d[8]
  BY <1>9, <1>10, <1>11, <1>12, <1>13, <1>14, <1>15, <1>16, <1>17
<1>19. Upstream[1] = "crypto" /\ Upstream[2] = "mac"
  BY DEF Upstream
<1>20. RunsApart(d)
  BY <1>8, <1>9, <1>10, <1>11, <1>12, <1>13, <1>14, <1>15, <1>17, <1>18, <1>19, Zenon DEF RunsApart
<1>21. Runs(OnTheWay, 0, d[8])
  BY <1>3, <1>20, RunsOnTheWay
<1>22. D(ReadCut) = ChunksRead
  BY <1>0, CutsRead DEF D
<1>. QED
  BY <1>17, <1>21, <1>22

-----------------------------------------------------------------------------
(***************************************************************************)
(* The safety properties of Controller as theorems of its specification,   *)
(* and the proof that a run implements OneRun.  The inductive invariant    *)
(* is the types with EncInv or DecInv, whichever way the run goes.         *)
(***************************************************************************)
Inv ==
  /\ TypeInv
  /\ Encrypting => EncInv
  /\ ~Encrypting => DecInv

LEMMA InvInit ==
  Init => Inv
  BY TypeInit, EncryptInit, DecryptInit DEF Inv

LEMMA InvStep ==
  Inv /\ [Next]_vars => Inv'
<1>. SUFFICES ASSUME Inv, [Next]_vars PROVE Inv'
  OBVIOUS
<1>1. TypeInv'
  BY TypeStep DEF Inv
<1>2. Encrypting => EncInv'
  BY EncryptStep DEF Inv
<1>3. ~Encrypting => DecInv'
  BY DecryptStep DEF Inv
<1>. QED
  BY <1>1, <1>2, <1>3 DEF Inv

LEMMA Invariance ==
  Spec => []Inv
  BY InvInit, InvStep, PTL DEF Spec

-----------------------------------------------------------------------------
(* The safety properties *)

\* While the run goes on, the data chunks in the temporary file, in the hands
\* of the threads and in their queues are those read so far, each of them once
\* and in the file's order: no thread drops, repeats or overtakes a chunk.
THEOREM Streams ==
  Spec => []StreamInOrder
<1>1. Inv => StreamInOrder
  BY EncryptInOrder, DecryptInOrder DEF Inv
<1>. QED
  BY <1>1, Invariance, PTL

\* asyncWrite moves only a complete file over the target: the header, every
\* chunk enciphered after the one before it and the MAC of all that, or, in
\* decryption, as many bytes as the header promises, those of the plain file if
\* no chunk was changed.  The header's size is not checked before it is acted
\* on: a header with another IV may promise less than the plain file, and that
\* much and no less is then written.  Holds whatever call fails, whatever
\* happened to the file and in every order of the threads' steps.
THEOREM Commits ==
  Spec => []CommitIsAsPromised
<1>1. Inv => CommitIsAsPromised
  BY EncryptCommits, DecryptCommits DEF Inv
<1>. QED
  BY <1>1, Invariance, PTL

\* When runThreefizer returns SUCCESS the input was authentic and the complete
\* output is in place, or in the temporary file if rename failed.
THEOREM Succeeds ==
  Spec => []SuccessIsReal
<1>1. Inv => SuccessIsReal
  BY EncryptSucceeds, DecryptSucceeds DEF Inv
<1>. QED
  BY <1>1, Invariance, PTL

\* README: "Only overwrites files on success".  An encryption that returns an
\* error has left its target alone.  (A decryption need not: asyncWrite can be
\* done before authenticateMAC has compared the MAC.)
THEOREM OverwritesAfterSuccess ==
  Spec => [](Encrypting => OverwritesOnlyOnSuccess)
<1>1. Inv => (Encrypting => OverwritesOnlyOnSuccess)
  BY EncryptOverwrites DEF Inv
<1>. QED
  BY <1>1, Invariance, PTL

\* A thread that sleeps on a full queue whose other end has returned is only
\* found after an error in encryption, or after the end of the writing in
\* decryption: nobody is left behind by a run that still goes on.
THEOREM Orphans ==
  Spec => []OrphansOnlyAfterEnd
<1>1. Inv => OrphansOnlyAfterEnd
  BY EncryptOrphans, DecryptOrphans DEF Inv, OrphansOnlyAfterEnd
<1>. QED
  BY <1>1, Invariance, PTL

-----------------------------------------------------------------------------
(* A run implements OneRun *)

\* What the steps that change the files or return need of the invariant.
Ready ==
  /\ status = NULL <=> pc["main"] # "over"
  /\ pc["main"] = "start" => temp = NULL /\ target = NULL
  /\ Started /\ pc["write"] = "start" => temp = NULL /\ target = NULL
  /\ Started /\ pc["write"] = "rename" => Whole(temp)
  /\ Started /\ pc["write"] = "exit" /\ error = "none" => target # NULL \/ Whole(temp)
  /\ error # "none" /\ Encrypting => target = NULL

LEMMA InvReady ==
  Inv => Ready
<1>1. ASSUME Inv, Encrypting PROVE Ready
  <2>1. Started /\ error = "none" => Healthy
    BY DEF Started, Healthy, Launched
  <2>2. /\ Started /\ pc["write"] = "rename" => Whole(temp)
        /\ Started /\ pc["write"] = "exit" /\ error = "none" => target # NULL \/ Whole(temp)
    BY <1>1, <2>1, OutputFacts
    DEF Inv, EncInv, Fate, OutputOK, Whole, SameBody, Output, Expected, Shape
  <2>3. Started /\ pc["write"] = "start" => temp = NULL /\ target = NULL
    BY <1>1, <2>1 DEF Inv, EncInv, Fate, OutputOK
  <2>. QED
    BY <1>1, <2>2, <2>3 DEF Inv, EncInv, Fate, NotYet, Ready
<1>2. ASSUME Inv, ~Encrypting PROVE Ready
  BY <1>2 DEF Inv, DecInv, Outcome, Untouched, Ready
<1>. QED
  BY <1>1, <1>2

\* The output of a run and the way it is looked at depend on the file alone.
LEMMA SameView ==
  ASSUME UNCHANGED file
  PROVE  /\ UNCHANGED View(Expected)
         /\ UNCHANGED (file.damage = "intact")
         /\ UNCHANGED temp => UNCHANGED (IF temp = NULL THEN NULL ELSE View(temp))
  BY DEF View, SameBody, Shape, Expected

\* A file looked at in either way is not NULL, and longer by what it grew.
LEMMA ViewFacts ==
  ASSUME NEW s \in Seq(Chunks)
  PROVE  /\ View(s) # NULL
         /\ View(<<>>) = <<>>
         /\ \A c \in Chunks : /\ Len(View(Append(s, c))) = Len(View(s)) + 1
                              /\ SubSeq(View(Append(s, c)), 1, Len(View(s))) = View(s)
<1>1. Shape(s) \in Seq(Int \X Int) /\ Len(Shape(s)) = Len(s)
      /\ \A i \in 1 .. Len(s) : Shape(s)[i] = <<s[i].id, s[i].size>>
  <2>1. \A i \in 1 .. Len(s) : s[i].id \in Int /\ s[i].size \in Int
    <3>1. \A i \in 1 .. Len(s) : s[i] \in Chunks
      OBVIOUS
    <3>. QED
      BY <3>1, ChunkFields
  <2>2. Shape(s) = [i \in 1 .. Len(s) |-> <<s[i].id, s[i].size>>]
    BY DEF Shape
  <2>. QED
    BY <2>1, <2>2
<1>2. Shape(<<>>) = <<>>
  BY DEF Shape
<1>3. ASSUME NEW c \in Chunks
      PROVE  /\ Len(Append(s, c)) = Len(s) + 1
             /\ SubSeq(Append(s, c), 1, Len(s)) = s
             /\ Len(Shape(Append(s, c))) = Len(s) + 1
             /\ SubSeq(Shape(Append(s, c)), 1, Len(s)) = Shape(s)
  <2>. DEFINE t == Append(s, c)
  <2>1. t \in Seq(Chunks) /\ Len(t) = Len(s) + 1 /\ \A i \in 1 .. Len(s) : t[i] = s[i]
    OBVIOUS
  <2>. HIDE DEF t
  <2>2. Shape(t) = [i \in 1 .. Len(t) |-> <<t[i].id, t[i].size>>]
    BY <2>1 DEF Shape
  <2>3. \A i \in 1 .. Len(t) : t[i].id \in Int /\ t[i].size \in Int
    <3>1. \A i \in 1 .. Len(t) : t[i] \in Chunks
      BY <2>1
    <3>. QED
      BY <3>1, ChunkFields
  <2>4. Shape(t) \in Seq(Int \X Int) /\ Len(Shape(t)) = Len(s) + 1
        /\ \A i \in 1 .. Len(s) : Shape(t)[i] = Shape(s)[i]
    <3>1. Shape(t) \in Seq(Int \X Int) /\ Len(Shape(t)) = Len(t)
      BY <2>2, <2>3
    <3>2. \A i \in 1 .. Len(t) : Shape(t)[i] = <<t[i].id, t[i].size>>
      BY <2>2
    <3>3. \A i \in 1 .. Len(s) : i \in 1 .. Len(t)
      BY <2>1
    <3>. QED
      BY <1>1, <2>1, <3>1, <3>2, <3>3
  <2>5. SubSeq(Shape(t), 1, Len(s)) = Shape(s)
    <3>1. SubSeq(Shape(t), 1, Len(s)) \in Seq(Int \X Int)
          /\ Len(SubSeq(Shape(t), 1, Len(s))) = Len(s)
          /\ \A i \in 1 .. Len(s) : SubSeq(Shape(t), 1, Len(s))[i] = Shape(t)[i]
      BY <2>4
    <3>. QED
      BY <1>1, <2>4, <3>1, SeqEqual
  <2>6. SubSeq(t, 1, Len(s)) = s
    <3>1. SubSeq(t, 1, Len(s)) \in Seq(Chunks)
          /\ Len(SubSeq(t, 1, Len(s))) = Len(s)
          /\ \A i \in 1 .. Len(s) : SubSeq(t, 1, Len(s))[i] = t[i]
      BY <2>1
    <3>. QED
      BY <2>1, <3>1, SeqEqual
  <2>. QED
    BY <2>1, <2>4, <2>5, <2>6 DEF t
<1>. QED
  BY <1>1, <1>2, <1>3, FileNotNull, StatusAssumption DEF View

\* A step that leaves the files and the status alone is none of OneRun's.
LEMMA QuietStutters ==
  UNCHANGED <<file, temp, target, status>> => UNCHANGED Run!vars
  BY SameView DEF Run!vars

LEMMA WriteImplements ==
  ASSUME Inv, WriteStep
  PROVE  [Run!Next]_(Run!vars)
<1>. DEFINE copy == IF temp = NULL THEN NULL ELSE View(temp)
<1>1. /\ Started /\ Ready /\ TypeInv
      /\ UNCHANGED <<file, status>>
      /\ status = NULL
  BY InvReady
  DEF Inv, Ready, Started, WriteStep, Writer, WriteOpen, WriteTurn, WriteTake, WriteChunk,
      WriteFinish, WriteRename, WriteStop
<1>2. /\ UNCHANGED View(Expected)
      /\ UNCHANGED (file.damage = "intact")
  BY <1>1, SameView
<1>3. CASE WriteOpen
  <2>1. temp = NULL /\ target = NULL /\ target' = target
        /\ (temp' = <<>> \/ temp' = temp)
    BY <1>1, <1>3 DEF WriteOpen, Ready
  <2>2. CASE temp' = <<>>
    <3>1. (IF temp = NULL THEN NULL ELSE View(temp))' = <<>>
      BY <2>2, <1>1, FileNotNull, ViewFacts DEF View, Shape
    <3>2. Run!Open
      BY <1>1, <1>2, <2>1, <3>1 DEF Run!Open
    <3>. QED
      BY <3>2 DEF Run!Next
  <2>. QED
    BY <1>1, <2>1, <2>2, QuietStutters
<1>4. CASE WriteChunk
  <2>1. /\ temp \in Seq(Chunks) /\ temp # NULL
        /\ hold["write"] \in Chunks /\ BytesToWrite \in Int
        /\ target' = target
    <3>1. /\ pc["write"] = "write" /\ hold["write"] \in Good /\ bytesWritten \in Nat /\ target' = target
          /\ file \in Files /\ newFileSize \in {0, file.promised}
      BY <1>1, <1>4
      DEF WriteChunk, TypeInv, HoldsTyped, FlagsTyped, WriteTyped, Threads
    <3>2. newFileSize \in Nat
      BY <3>1, FileFacts
    <3>3. hold["write"] \in Chunks /\ hold["write"].size \in Int
      BY <3>1, GoodFacts, ChunkFields
    <3>4. BytesToWrite \in Int
      BY <3>1, <3>2, <3>3 DEF BytesToWrite
    <3>. QED
      BY <1>1, <3>1, <3>3, <3>4, FileNotNull DEF TypeInv, WriteTyped
  <2>2. CASE temp' = temp
    BY <1>1, <2>1, <2>2, QuietStutters
  <2>3. CASE temp' # temp
    <3>1. PICK c \in Chunks : temp' = Append(temp, c)
      BY <1>4, <2>1, <2>3, DataType DEF WriteChunk
    <3>2. temp' \in Seq(Chunks) /\ temp' # NULL
      BY <2>1, <3>1, FileNotNull
    <3>3. copy' = View(Append(temp, c)) /\ copy = View(temp)
      BY <1>1, <2>1, <3>1, <3>2 DEF View, SameBody, Shape
    <3>4. copy # NULL /\ copy' # NULL /\ Len(copy') = Len(copy) + 1
          /\ SubSeq(copy', 1, Len(copy)) = copy
      <4>1. Append(temp, c) \in Seq(Chunks)
        BY <2>1
      <4>. QED
        BY <2>1, <3>3, <4>1, ViewFacts
    <3>5. Run!Write
      BY <1>1, <1>2, <2>1, <3>4 DEF Run!Write
    <3>. QED
      BY <3>5 DEF Run!Next
  <2>. QED
    BY <2>2, <2>3
<1>5. CASE WriteRename
  <2>1. Whole(temp) /\ \/ target' = temp /\ temp' = NULL
                       \/ target' = target /\ temp' = temp
    BY <1>1, <1>5 DEF WriteRename, Goto, Ready
  <2>2. CASE target' = temp /\ temp' = NULL
    <3>1. temp # NULL /\ View(temp) = View(Expected)
      BY <2>1 DEF Whole, SameBody, View
    <3>2. copy = View(Expected) /\ copy' = NULL /\ (target # NULL)' = TRUE
      BY <2>2, <3>1
    <3>3. Run!Place
      BY <1>1, <1>2, <3>2 DEF Run!Place
    <3>. QED
      BY <3>3 DEF Run!Next
  <2>. QED
    BY <1>1, <2>1, <2>2, QuietStutters
<1>6. CASE WriteTurn \/ WriteTake \/ WriteFinish \/ WriteStop
  BY <1>1, <1>6, QuietStutters DEF WriteTurn, WriteTake, WriteFinish, WriteStop, writeVars
<1>. QED
  BY <1>3, <1>4, <1>5, <1>6 DEF WriteStep, Writer

LEMMA MainImplements ==
  ASSUME Inv, Inv', MainStep
  PROVE  [Run!Next]_(Run!vars)
<1>. DEFINE copy == IF temp = NULL THEN NULL ELSE View(temp)
<1>1. Ready /\ TypeInv /\ UNCHANGED file
  BY InvReady DEF Inv, MainStep, Refuse, StartThreads, LeaveBar, JoinAndCleanUp
<1>2. /\ UNCHANGED View(Expected)
      /\ UNCHANGED (file.damage = "intact")
  BY <1>1, SameView
<1>3. CASE Refuse
  <2>1. /\ status = NULL /\ temp = NULL /\ target = NULL
        /\ UNCHANGED <<temp, target>>
        /\ status' # "SUCCESS"
    BY <1>1, <1>3 DEF Refuse, Return, Ready, threadVars, writeVars
  <2>2. Run!Fail(status')
    BY <1>1, <1>2, <2>1 DEF Run!Fail
  <2>. QED
    BY <2>2 DEF Run!Next
<1>4. CASE JoinAndCleanUp
  <2>1. /\ status = NULL /\ target' = target
        /\ error \in Errors \cup {"none"}
    BY <1>1, <1>4 DEF JoinAndCleanUp, Ready, TypeInv, FlagsTyped
  <2>2. CASE error = "none"
    <3>1. status' = "SUCCESS" /\ temp' = temp
      BY <1>4, <2>2 DEF JoinAndCleanUp, Return
    <3>2. SuccessIsReal'
      BY EncryptSucceeds, DecryptSucceeds, PTL DEF Inv
    <3>3. /\ file.damage = "intact"
          /\ target # NULL \/ copy = View(Expected)
      <4>1. file.damage = "intact"
        BY <1>1, <3>1, <3>2 DEF SuccessIsReal
      <4>2. target # NULL \/ Whole(temp)
        BY <1>1, <1>4, <2>2 DEF JoinAndCleanUp, Ready, Started, Threads
      <4>. QED
        BY <4>1, <4>2 DEF Whole, SameBody, View
    <3>4. Run!Succeed
      <4>1. copy' = copy
        BY <1>1, <3>1, SameView
      <4>. QED
        BY <1>2, <2>1, <3>1, <3>3, <4>1 DEF Run!Succeed
    <3>. QED
      BY <3>4 DEF Run!Next
  <2>3. CASE error # "none"
    <3>1. status' = error /\ temp' = NULL /\ status' # "SUCCESS" /\ (Encrypting => target = NULL)
      BY <1>1, <1>4, <2>1, <2>3 DEF JoinAndCleanUp, Return, Errors, Ready
    <3>2. Run!Fail(status')
      BY <1>2, <2>1, <3>1 DEF Run!Fail
    <3>. QED
      BY <3>2 DEF Run!Next
  <2>. QED
    BY <2>2, <2>3
<1>5. CASE StartThreads \/ LeaveBar
  BY <1>5, QuietStutters DEF StartThreads, LeaveBar, threadVars, writeVars
<1>. QED
  BY <1>3, <1>4, <1>5 DEF MainStep

\* Every step of a run is a step of OneRun or changes nothing it speaks of.
LEMMA StepImplements ==
  Inv /\ Inv' /\ [Next]_vars => [Run!Next]_(Run!vars)
<1>1. ASSUME \/ ReadStep \/ CryptoStep \/ MacStep \/ BarFull \/ Sleep \/ Terminated \/ UNCHANGED vars
      PROVE  UNCHANGED <<file, temp, target, status>>
  BY <1>1
  DEF ReadStep, Reader, ReadOpen, ReadChunk, ReadQueue, ReadEnd, ReadDone,
      CryptoStep, Crypto, CryptoStart, CryptoTurn, CryptoNothing, CryptoSeesDone, EncryptHeader,
      EncryptChunk, StripHeader, DecryptChunk, CryptoPut, CryptoDone,
      MacStep, Mac, MacStart, GenerateCond, GenerateGet, GenerateIdle, GeneratePut, GenerateAppend,
      AuthTurn, AuthTake, AuthHeld, AuthHeaderBad, AuthHash, AuthPass, AuthFinal, AuthStored,
      AuthFetch, AuthVerdict, MacDone, BarFull, Sleep, Terminated, vars, pipelineVars, threadVars,
      writeVars
<1>. QED
  BY <1>1, QuietStutters, WriteImplements, MainImplements DEF Next

\* A run of the four threads keeps the promises of OneRun, in encryption and in
\* decryption: its temporary file only grows until the output replaces the
\* target, it returns once, SUCCESS only for an authentic input with the output
\* in place or, when rename failed, in the temporary file, and it leaves no
\* temporary file when it returns an error.  The output of a decryption is what
\* the header promises, which is the plain file's size unless its IV was changed.
THEOREM Implements ==
  Spec => ImplementsRun
<1>1. Init => Run!Init
  <2>. SUFFICES ASSUME Init PROVE Run!Init
    OBVIOUS
  <2>1. temp = NULL /\ target = NULL /\ status = NULL
    BY DEF Init, WriteInit
  <2>. QED
    BY <2>1, PipelineAssumption DEF Run!Init
<1>2. Inv /\ Inv' /\ [Next]_vars => [Run!Next]_(Run!vars)
  BY StepImplements
<1>. QED
  BY <1>1, <1>2, Invariance, PTL DEF Spec, ImplementsRun, Run!Spec
=============================================================================
