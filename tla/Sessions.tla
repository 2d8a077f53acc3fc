------------------------------- MODULE Sessions -------------------------------
(***************************************************************************)
(* Threefizer used again and again on the same files: command lines, keys, *)
(* runs that end or are killed at any point, and the user who changes a    *)
(* file in between.  A run is what OneRun makes of it, as Controller was   *)
(* shown to be.                                                            *)
(*                                                                         *)
(* A file is a sequence of cells: parts of a text, the header and the MAC  *)
(* of an encrypted file and its cipher text, one cell for one of the input.*)
(* What is left behind the last of them is one cell, "rest".  A header has *)
(* the key, the IV and the contents it stands for.                         *)
(***************************************************************************)
EXTENDS Keys, FiniteSets
LOCAL INSTANCE SequencesExt

CONSTANTS
  Commands(_),    \* the command lines of the n-th run
  FirstFiles,     \* what files there may be in the beginning
  Edits,          \* the texts the user may put in a file afterwards
  TextWords,      \* the words of one cell of text
  MaxRuns,
  NULL

VARIABLES
  files,      \* the contents of the files that exist, by name
  temps,      \* of the temporary files, by target and block size
  key, iv,    \* of the run
  output, authentic, done, replaced, result,   \* of OneRun: done is its temp
  before,     \* the files when the process started
  runs,       \* how many there were
  had,        \* what any file was given by the user or an encryption
  leftover    \* a run was killed, or could not rename

diskVars == <<files, temps>>
runVars == <<key, iv, output, authentic, done, replaced, result>>
pastVars == <<before, runs, had, leftover>>
vars == <<mainVars, diskVars, runVars, pastVars>>

-----------------------------------------------------------------------------
(* Contents *)

Cell(kind, words) ==
  [kind |-> kind, words |-> words, nr |-> 0, key |-> <<>>, iv |-> 0, of |-> <<>>]

Text(version, n) ==
  [k \in 1 .. n |-> [Cell("text", TextWords) EXCEPT !.nr = k, !.iv = version]]

\* What the user may put in a file: nothing encrypted.
IsText(file) ==
  /\ file \in Seq({file[k] : k \in DOMAIN file})
  /\ \A k \in DOMAIN file : file[k].kind = "text"

ASSUME FilesAssumption ==
  /\ \A first \in FirstFiles : DOMAIN first # {} /\ \A name \in DOMAIN first : IsText(first[name])
  /\ \A text \in Edits : IsText(text)

\* An option is followed by what getopt_long and validSize let pass.
ASSUME CommandsAssumption ==
  /\ MaxRuns \in Nat /\ MinBytes \in Nat
  /\ SuccessStatus = "SUCCESS"
  /\ \A n \in 1 .. MaxRuns : \A command \in Commands(n) :
       /\ command.options \in Seq({command.options[k] : k \in DOMAIN command.options})
       /\ \A k \in DOMAIN command.options : LET option == command.options[k] IN
            /\ option.o = "b" => option.size \in {4, 8, 16}
            /\ option.o = "r" => option.file # ""
            /\ option.o = "p" => PwLength(option.text) \in Nat

Words(file) == FoldSeq(LAMBDA cell, sum : cell.words + sum, 0, file)

Padded(words, size) == ((words + size - 1) \div size) * size

\* What encryption makes of a file.
Encrypted(file, k, salt) ==
  LET size == KeySize(k)
      part(kind, words) == [Cell(kind, words) EXCEPT !.key = k, !.iv = salt]
  IN  <<[part("header", 2 * size) EXCEPT !.of = file]>>
        \o [n \in DOMAIN file |->
              [part("cipher", Padded(file[n].words, size)) EXCEPT !.nr = n]]
        \o <<part("mac", size)>>

\* checkHeader: it deciphers to the schema only with the key and IV it had.
Opens(file, k, salt) == file[1].kind = "header" /\ file[1].key = k /\ file[1].iv = salt
HeaderGood(file) == Opens(file, key, iv)

Genuine(file) ==
  file[1].kind = "header" /\ file = Encrypted(file[1].of, file[1].key, file[1].iv)

\* A slip: what is written goes behind what was there.
OverlayAfter(cells, old) == Append(old, cells[Len(cells)])

\* open without O_TRUNC and then write: what is longer than that stays behind.
\* What only grows is never longer.
Overlay(cells, old) ==
  LET over == Words(old) - Words(cells)
  IN  IF IsPrefix(old, cells) \/ over <= 0 THEN cells ELSE Append(cells, Cell("rest", over))

\* The files without one of them, and with one created or replaced.
Without(f, name) == [n \in DOMAIN f \ {name} |-> f[n]]
With(f, name, cells) == [n \in DOMAIN f \union {name} |-> IF n = name THEN cells ELSE f[n]]

-----------------------------------------------------------------------------
(* One process *)

Target == files[argv.file]

\* The temporary file is named by a hash of the target's name, which has the
\* block size of the cipher.
Temp == <<argv.file, args.state_size>>

\* A slip: the output always replaces the target.
DestinationTarget == argv.file
Destination == IF args.rename # "" THEN args.rename ELSE argv.file

Run == INSTANCE OneRun WITH decrypting <- ~args.encrypt, temp <- done, status <- result

\* What a run does not change of its command line.
commandVars == <<argv, at, args>>

Fail(error) == Run!Fail(error) /\ pc' = "end" /\ status' = error

\* A slip: the temporary file is not removed.
CleanUpNot == UNCHANGED temps

\* unlink, after a failure.
CleanUp == temps' = Without(temps, Temp)

TooSmall ==
  Target = <<>> \/ (~args.encrypt /\ Words(Target) <= 3 * args.state_size)

\* The returns before any thread exists.
Refuse ==
  /\ pc = "run"
  /\ UNCHANGED commandVars
  /\ \/ TooSmall /\ Fail("FILE_TOO_SMALL")
     \/ ~TooSmall /\ NoKey(args) /\ Fail("KEY_GENERATION_FAIL")
  /\ UNCHANGED <<diskVars, key, iv, pastVars>>

\* Which key the run gets, and what it is then going to write.
MakeKeys ==
  /\ pc = "run" /\ ~TooSmall /\ ~NoKey(args)
  /\ UNCHANGED commandVars
  /\ iv' = SaltOf(args, Target, runs)
  /\ key' \in KeysOf(args, iv')
  /\ output' = IF args.encrypt THEN Encrypted(Target, key', iv')
               ELSE IF Opens(Target, key', iv') THEN Target[1].of ELSE <<>>
  /\ authentic' = (args.encrypt \/ (Genuine(Target) /\ Opens(Target, key', iv')))
  /\ pc' = "open"
  /\ UNCHANGED <<status, diskVars, done, replaced, result, pastVars>>

OpenTemp ==
  /\ pc = "open"
  /\ UNCHANGED commandVars
  /\ Run!Open
  /\ temps' = IF Temp \in DOMAIN temps THEN temps ELSE With(temps, Temp, <<>>)
  /\ pc' = "write"
  /\ UNCHANGED <<status, files, key, iv, pastVars>>

WriteNext ==
  /\ pc = "write" /\ Len(done) < Len(output)
  /\ UNCHANGED commandVars
  /\ done' = Append(done, output[Len(done) + 1])
  /\ Run!Write
  /\ temps' = With(temps, Temp, Overlay(done', temps[Temp]))
  /\ UNCHANGED <<status, pc, files, key, iv, pastVars>>

\* Some call fails; the header or the MAC is not that of the key.
RunFails ==
  /\ UNCHANGED commandVars
  /\ \/ pc \in {"open", "write"} /\ Fail("FILE_IO_FAIL")
     \/ /\ pc = "write" /\ ~args.encrypt /\ ~HeaderGood(Target)
        /\ Fail("HEADER_CHECK_FAIL")
     \/ /\ pc = "write" /\ ~args.encrypt /\ HeaderGood(Target) /\ ~authentic
        /\ Fail("MAC_CHECK_FAIL")
  /\ CleanUp
  /\ UNCHANGED <<files, key, iv, pastVars>>

\* A slip: what is there is moved, whole or not.
RenameAnyway ==
  /\ pc = "write" /\ done # <<>>
  /\ UNCHANGED commandVars
  /\ pc' = "placed"
  /\ files' = With(files, Destination, temps[Temp])
  /\ temps' = Without(temps, Temp)
  /\ done' = NULL /\ replaced' = TRUE
  /\ had' = IF args.encrypt THEN had \union {output} ELSE had
  /\ UNCHANGED <<status, key, iv, output, authentic, result, before, runs, leftover>>

Rename ==
  /\ pc = "write" /\ (args.encrypt \/ HeaderGood(Target))
  /\ UNCHANGED commandVars
  /\ pc' = "placed"
  /\ \/ /\ Run!Place
        /\ files' = With(files, Destination, temps[Temp])
        /\ temps' = Without(temps, Temp)
        /\ had' = IF args.encrypt THEN had \union {output} ELSE had
        /\ UNCHANGED leftover
     \/ /\ done = output
        /\ leftover' = TRUE
        /\ UNCHANGED <<diskVars, output, authentic, done, replaced, result, had>>
  /\ UNCHANGED <<status, key, iv, before, runs>>

\* After the rename only decryption can still fail, rightly or not: its MAC is
\* compared when the write thread has stopped the others.
JoinAndCleanUp ==
  /\ pc = "placed" /\ pc' = "end"
  /\ UNCHANGED commandVars
  /\ \/ Run!Succeed /\ UNCHANGED temps
     \/ /\ ~args.encrypt
        /\ \E error \in {"MAC_CHECK_FAIL", "FILE_IO_FAIL"} : Run!Fail(error)
        /\ CleanUp
  /\ status' = result'
  /\ UNCHANGED <<files, key, iv, pastVars>>

-----------------------------------------------------------------------------
(* All of them *)

Forget ==
  /\ argv' = [options |-> <<>>, file |-> ""] /\ at' = 1
  /\ args' = initArguments /\ status' = SuccessStatus /\ pc' = "idle"
  /\ key' = <<>> /\ iv' = 0
  /\ output' = <<>> /\ authentic' = FALSE /\ done' = NULL /\ replaced' = FALSE /\ result' = NULL
  /\ before' = NULL

Exit ==
  /\ pc = "end"
  /\ Forget
  /\ UNCHANGED <<diskVars, runs, had, leftover>>

\* The end of a process nobody wrote: a signal, a crash, the machine.
Kill ==
  /\ pc \in {"open", "write", "placed"}
  /\ Forget
  /\ leftover' = TRUE
  /\ UNCHANGED <<diskVars, runs, had>>

Begin ==
  /\ pc = "idle" /\ runs < MaxRuns
  /\ \E command \in Commands(runs + 1) : Start(command)
  /\ runs' = runs + 1
  /\ before' = files
  /\ UNCHANGED <<diskVars, runVars, had, leftover>>

\* The user puts another text in a file.
Edit ==
  /\ pc = "idle" /\ runs > 0
  /\ \E name \in DOMAIN files, text \in Edits :
       /\ text \notin had
       /\ files' = With(files, name, text)
       /\ had' = had \union {text}
  /\ UNCHANGED <<mainVars, temps, runVars, before, runs, leftover>>

Init ==
  /\ MainInit
  /\ files \in FirstFiles
  /\ temps = [t \in {} |-> <<>>]
  /\ key = <<>> /\ iv = 0
  /\ output = <<>> /\ authentic = FALSE /\ done = NULL /\ replaced = FALSE /\ result = NULL
  /\ before = NULL /\ runs = 0
  /\ had = {files[name] : name \in DOMAIN files}
  /\ leftover = FALSE

There == argv.file \in DOMAIN files

MainOnly ==
  /\ MainStep \/ CheckTarget(There)
  /\ UNCHANGED <<diskVars, runVars, pastVars>>

Next ==
  \/ Begin \/ MainOnly
  \/ Refuse \/ MakeKeys \/ OpenTemp \/ WriteNext \/ RunFails \/ Rename \/ JoinAndCleanUp
  \/ Exit \/ Kill \/ Edit

Spec == Init /\ [][Next]_vars

-----------------------------------------------------------------------------
(* Properties *)

Given(letter) == \E k \in DOMAIN argv.options : argv.options[k].o = letter

\* Where the output is to go by the command line, whose last -r counts.
LastGiven(letter) ==
  CHOOSE k \in DOMAIN argv.options :
    /\ argv.options[k].o = letter
    /\ \A j \in k + 1 .. Len(argv.options) : argv.options[j].o # letter

Wanted == IF Given("r") THEN argv.options[LastGiven("r")].file ELSE argv.file

\* The contents and nothing but the end of something longer behind them.
HasTail(file, contents) ==
  /\ IsPrefix(contents, file)
  /\ \A k \in Len(contents) + 1 .. Len(file) : file[k].kind = "rest"

\* The fields have their values, and the temporary file on disk begins with
\* what the run has written since it opened it, whatever was in it before.
TypeOK ==
  /\ pc \in {"idle", "parse", "ask", "run", "open", "write", "placed", "end"}
  /\ args.state_size \in {4, 8, 16}
  /\ had # {} /\ runs \in 0 .. MaxRuns
  /\ done # NULL => /\ Temp \in DOMAIN temps /\ IsPrefix(done, temps[Temp])
                    /\ IsPrefix(done, output)

\* Whatever fails or is killed, and whatever was left behind by an earlier run:
\* every file holds what the user put there, or all that a run was to put there.
FilesWhole ==
  \A name \in DOMAIN files :
    \/ files[name] \in had
    \/ leftover /\ \E contents \in had : HasTail(files[name], contents)

\* Between runs there is no temporary file, unless one was killed or could not
\* rename it.
NoLitter ==
  pc = "idle" /\ ~leftover => DOMAIN temps = {}

\* A run that ends in success has put its output where the user wanted it, or
\* left it in the temporary file, and no run changes another file than that.
Delivered ==
  pc = "end" =>
    /\ Without(files, Wanted) = Without(before, Wanted)
    /\ status = SuccessStatus /\ output # <<>> =>
         IF replaced THEN Wanted \in DOMAIN files /\ IsPrefix(output, files[Wanted])
         ELSE Temp \in DOMAIN temps /\ IsPrefix(output, temps[Temp])

\* Decryption with the secret and the options of the encryption finds a good
\* header, unless the key was made of memory nobody wrote or, at one of the two
\* times, there was no memory to stretch it.
SameSecretOpens ==
  status = "HEADER_CHECK_FAIL" =>
    LET header == Target[1]
    IN  \/ header.kind # "header"
        \/ header.key.recipe # Recipe(args)
        \/ OfJunk(args)
        \/ Stretched(args) /\ NoSalt \in {header.key.salt, key.salt}

\* free is for a password askPassword allocated, unless -p came with -P.
FreesOwn == pc = "end" /\ FreesArgv => Given("p") /\ Given("P")

\* The run that starts is the one the whole command line asks for: decryption
\* if -d is anywhere in it, with a secret, and no option that is refused.
AsAsked ==
  pc \in {"run", "open"} =>
    /\ args.encrypt <=> ~Given("d")
    /\ args.hash_from_file <=> Given("P")
    /\ args.hash_from_file \/ args.password # NoPassword
    /\ ~Given("?")
    /\ \A k \in DOMAIN argv.options : LET o == argv.options[k] IN
         /\ o.o = "p" => PwLength(o.text) > MinBytes
         /\ o.o = "P" => o.file \in KeyFiles
         /\ o.o = "e" => \A j \in 1 .. k : argv.options[j].o # "d"

\* cryptoThread.c: "The encrypted file should be written like this
\* |HEADER|CIPHER_TEXT|MAC|", and nothing behind it.
OutputIsExact ==
  status = SuccessStatus /\ pc = "end" /\ replaced => files[Destination] = output
=============================================================================
