---------------------------- MODULE SessionsProofs ----------------------------
(***************************************************************************)
(* What the option loop makes of every command line there is, and what run *)
(* after run leaves of the files.                                          *)
(***************************************************************************)
EXTENDS Sessions, SequenceTheorems, TLAPS
LOCAL INSTANCE SequencesExt

-----------------------------------------------------------------------------
(***************************************************************************)
(* What main's option loop makes of a command line, for every command line *)
(* there is: the part of the invariant of Sessions that is about argv and  *)
(* the structure arguments.                                                *)
(***************************************************************************)
Fields == {"encrypt", "hash", "legacy_hash", "state_size", "hash_from_file",
           "password", "key_file", "free", "rename"}

\* An option that getopt_long has returned.
Seen(letter) == \E k \in 1 .. at - 1 : argv.options[k].o = letter

Running == pc \in {"run", "open", "write", "placed"}

ArgsTyped ==
  /\ Len(argv.options) \in Nat
  /\ DOMAIN argv.options = 1 .. Len(argv.options)
  /\ \A k \in 1 .. Len(argv.options) : LET option == argv.options[k] IN
       /\ option.o = "b" => option.size \in {4, 8, 16}
       /\ option.o = "r" => option.file # ""
       /\ option.o = "p" => PwLength(option.text) \in Nat
  /\ at \in 1 .. Len(argv.options) + 1
  /\ DOMAIN args = Fields
  /\ args.state_size \in {4, 8, 16}
  /\ runs \in 0 .. MaxRuns

\* -r, of which the last counts.
RenameTaken ==
  \/ args.rename = "" /\ ~Seen("r")
  \/ \E k \in 1 .. at - 1 :
       /\ argv.options[k].o = "r" /\ argv.options[k].file = args.rename
       /\ \A j \in k + 1 .. at - 1 : argv.options[j].o # "r"

\* No option among those seen that would have ended the loop.
NoObjection ==
  \A k \in 1 .. at - 1 : LET o == argv.options[k] IN
    /\ o.o = "p" => PwLength(o.text) > MinBytes
    /\ o.o = "P" => o.file \in KeyFiles
    /\ o.o = "e" => \A j \in 1 .. k : argv.options[j].o # "d"

OptionsTaken ==
  /\ args.encrypt <=> ~Seen("d")
  /\ args.hash_from_file <=> Seen("P")
  /\ args.password # NoPassword /\ ~args.password.heap => Seen("p")
  /\ args.free => Seen("P") \/ args.password.heap
  /\ RenameTaken
  /\ NoObjection

Accepted ==
  /\ pc = "parse" => /\ ~args.password.heap
                     /\ status \in {SuccessStatus, "ARG_PARSING_FAIL"}
                     /\ status = SuccessStatus => ~Seen("?")
  /\ pc = "ask" \/ Running =>
       at = Len(argv.options) + 1 /\ status = SuccessStatus /\ ~Seen("?")
  /\ Running => args.hash_from_file \/ args.password # NoPassword

ArgsInv == ArgsTyped /\ OptionsTaken /\ Accepted

-----------------------------------------------------------------------------

LEMMA CommandFacts ==
  MaxRuns \in Nat /\ MinBytes \in Nat /\ SuccessStatus = "SUCCESS"
  BY CommandsAssumption

LEMMA ArgsFacts ==
  ASSUME ArgsInv
  PROVE  /\ ArgsTyped /\ OptionsTaken /\ Accepted
         /\ Len(argv.options) \in Nat /\ at \in 1 .. Len(argv.options) + 1
         /\ DOMAIN args = Fields
         /\ runs \in 0 .. MaxRuns
  BY DEF ArgsInv, ArgsTyped

LEMMA ArgsInit ==
  Init => ArgsInv
<1>. SUFFICES ASSUME Init PROVE ArgsInv
  OBVIOUS
<1>1. MainInit /\ runs = 0
  BY DEF Init
<1>. HIDE DEF Init
<1>2. at = 1
  BY <1>1 DEF MainInit
<1>3. argv.options = <<>> /\ pc = "idle" /\ args = initArguments
  BY <1>1 DEF MainInit
<1>4. \A letter : ~Seen(letter)
  BY <1>2 DEF Seen
<1>5. ArgsTyped
  <2>1. Len(argv.options) = 0 /\ DOMAIN argv.options = {}
    BY <1>3
  <2>2. DOMAIN args = Fields /\ args.state_size \in {4, 8, 16}
    BY <1>3 DEF initArguments, Fields
  <2>. QED
    BY <1>1, <1>2, <2>1, <2>2, CommandFacts DEF ArgsTyped
<1>6. OptionsTaken
  <2>1. RenameTaken
    BY <1>3, <1>4 DEF RenameTaken, initArguments
  <2>2. NoObjection
    BY <1>2 DEF NoObjection
  <2>3. /\ args.encrypt = TRUE /\ args.hash_from_file = FALSE
        /\ args.password = NoPassword /\ args.free = FALSE
    BY <1>3 DEF initArguments
  <2>4. (args.encrypt <=> ~Seen("d")) /\ (args.hash_from_file <=> Seen("P"))
    BY <1>4, <2>3
  <2>. QED
    BY <2>1, <2>2, <2>3, <2>4 DEF OptionsTaken
<1>7. Accepted
  BY <1>3 DEF Accepted, Running
<1>. QED
  BY <1>5, <1>6, <1>7 DEF ArgsInv

\* The loop of main takes one option more.
LEMMA SeenNext ==
  ASSUME at \in Nat \ {0}, at' = at + 1, UNCHANGED argv, NEW letter
  PROVE  Seen(letter)' <=> Seen(letter) \/ Option.o = letter
  BY DEF Seen, Option

LEMMA SameCommand ==
  ASSUME ArgsTyped, OptionsTaken, UNCHANGED commandVars, runs' \in 0 .. MaxRuns
  PROVE  /\ ArgsTyped' /\ OptionsTaken'
         /\ \A letter : Seen(letter)' <=> Seen(letter)
<1>1. argv' = argv /\ at' = at /\ args' = args
  BY DEF commandVars
<1>2. ArgsTyped'
  BY <1>1 DEF ArgsTyped
<1>3. \A letter : Seen(letter)' <=> Seen(letter)
  BY <1>1 DEF Seen
<1>4. RenameTaken'
  BY <1>1, <1>3 DEF OptionsTaken, RenameTaken
<1>5. NoObjection'
  BY <1>1 DEF OptionsTaken, NoObjection
<1>. QED
  BY <1>1, <1>2, <1>3, <1>4, <1>5 DEF OptionsTaken

\* What an option leaves in each field.
LEMMA FieldsSet ==
  ASSUME NEW a, DOMAIN a = Fields, NEW o
  PROVE  LET new == SetTo(a, o) IN
         /\ DOMAIN new = Fields
         /\ new.encrypt = IF o.o = "d" THEN FALSE ELSE a.encrypt
         /\ new.state_size = IF o.o = "b" THEN o.size ELSE a.state_size
         /\ new.hash_from_file = IF o.o = "P" THEN TRUE ELSE a.hash_from_file
         /\ new.free = IF o.o = "P" THEN TRUE ELSE a.free
         /\ new.password = IF o.o = "p" THEN [text |-> o.text, heap |-> FALSE] ELSE a.password
         /\ new.rename = IF o.o = "r" THEN o.file ELSE a.rename
<1>1. CASE o.o = "b"
  BY <1>1 DEF SetTo, Fields
<1>2. CASE o.o = "d"
  BY <1>2 DEF SetTo, Fields
<1>3. CASE o.o = "n"
  BY <1>3 DEF SetTo, Fields
<1>4. CASE o.o = "l"
  BY <1>4 DEF SetTo, Fields
<1>5. CASE o.o = "r"
  BY <1>5 DEF SetTo, Fields
<1>6. CASE o.o = "p"
  BY <1>6 DEF SetTo, Fields
<1>7. CASE o.o = "P"
  BY <1>7 DEF SetTo, Fields
<1>8. CASE o.o \notin {"b", "d", "n", "l", "r", "p", "P"}
  BY <1>8 DEF SetTo, Fields
<1>. QED
  BY <1>1, <1>2, <1>3, <1>4, <1>5, <1>6, <1>7, <1>8

LEMMA TakeOptionKeeps ==
  ASSUME ArgsInv, TakeOption, UNCHANGED runs
  PROVE  ArgsInv'
<1>. DEFINE o == Option
<1>1. /\ Len(argv.options) \in Nat /\ at \in 1 .. Len(argv.options) + 1
      /\ DOMAIN args = Fields
  BY ArgsFacts
<1>2. at <= Len(argv.options) /\ pc = "parse"
  BY DEF TakeOption, Parsing
<1>3. /\ ArgsTyped /\ OptionsTaken
      /\ ~args.password.heap
      /\ status \in {SuccessStatus, "ARG_PARSING_FAIL"}
      /\ status = SuccessStatus => ~Seen("?")
  BY <1>2 DEF ArgsInv, Accepted
<1>4. CASE Objection(args, o) # SuccessStatus
  <2>1. UNCHANGED <<argv, at, args>> /\ pc' = "end"
    BY <1>4 DEF TakeOption
  <2>2. ArgsTyped' /\ OptionsTaken'
    BY <1>3, <2>1, SameCommand DEF commandVars, ArgsTyped
  <2>3. Accepted'
    BY <2>1 DEF Accepted, Running
  <2>. QED
    BY <2>2, <2>3 DEF ArgsInv
<1>5. CASE Objection(args, o) = SuccessStatus
  <2>1. args' = SetTo(args, o) /\ at' = at + 1 /\ UNCHANGED <<argv, status, pc>>
    BY <1>5 DEF TakeOption
  <2>2. \A letter : Seen(letter)' <=> Seen(letter) \/ o.o = letter
    BY <1>1, <2>1, SeenNext
  <2>3. ArgsTyped'
    <3>1. o.o = "b" => o.size \in {4, 8, 16}
      <4>1. at \in 1 .. Len(argv.options)
        BY <1>1, <1>2
      <4>. QED
        BY <1>3, <4>1 DEF ArgsTyped, Option
    <3>2. DOMAIN args' = Fields /\ args'.state_size \in {4, 8, 16}
      BY <1>1, <1>3, <2>1, <3>1, FieldsSet DEF ArgsTyped
    <3>3. at' \in 1 .. Len(argv.options) + 1
      BY <1>1, <1>2, <2>1
    <3>. QED
      BY <1>3, <2>1, <3>2, <3>3 DEF ArgsTyped
  <2>4. /\ args'.encrypt = IF o.o = "d" THEN FALSE ELSE args.encrypt
        /\ args'.hash_from_file = IF o.o = "P" THEN TRUE ELSE args.hash_from_file
        /\ args'.free = IF o.o = "P" THEN TRUE ELSE args.free
        /\ args'.password = IF o.o = "p" THEN [text |-> o.text, heap |-> FALSE] ELSE args.password
        /\ args'.rename = IF o.o = "r" THEN o.file ELSE args.rename
    BY <1>1, <2>1, FieldsSet
  <2>. HIDE DEF o
  <2>5. ~args'.password.heap
    BY <1>3, <2>4
  <2>6. RenameTaken'
    <3>1. CASE o.o = "r"
      <4>1. at \in 1 .. at' - 1 /\ argv'.options[at] = o /\ args'.rename = o.file
        BY <1>1, <2>1, <2>4, <3>1 DEF o, Option
      <4>2. \A j \in at + 1 .. at' - 1 : argv'.options[j].o # "r"
        BY <1>1, <2>1
      <4>. QED
        BY <3>1, <4>1, <4>2 DEF RenameTaken
    <3>2. CASE o.o # "r" /\ ~Seen("r")
      BY <1>3, <2>2, <2>4, <3>2 DEF OptionsTaken, RenameTaken, Seen
    <3>3. CASE o.o # "r" /\ Seen("r")
      <4>1. PICK k \in 1 .. at - 1 :
              /\ argv.options[k].o = "r" /\ argv.options[k].file = args.rename
              /\ \A j \in k + 1 .. at - 1 : argv.options[j].o # "r"
        BY <1>3, <3>3 DEF OptionsTaken, RenameTaken
      <4>2. k \in 1 .. at' - 1 /\ argv'.options[k].file = args'.rename
        BY <1>1, <2>1, <2>4, <3>3, <4>1
      <4>3. \A j \in k + 1 .. at' - 1 : argv'.options[j].o # "r"
        <5>1. TAKE j \in k + 1 .. at' - 1
        <5>2. j = at \/ j \in k + 1 .. at - 1
          BY <1>1, <2>1
        <5>. QED
          BY <2>1, <3>3, <4>1, <5>2 DEF o, Option
      <4>. QED
        BY <2>1, <4>1, <4>2, <4>3 DEF RenameTaken
    <3>. QED
      BY <3>1, <3>2, <3>3
  <2>7. NoObjection'
    <3>. SUFFICES ASSUME NEW k \in 1 .. at' - 1
                  PROVE  LET option == argv'.options[k] IN
                         /\ option.o = "p" => PwLength(option.text) > MinBytes
                         /\ option.o = "P" => option.file \in KeyFiles
                         /\ option.o = "e" => \A j \in 1 .. k : argv'.options[j].o # "d"
      BY DEF NoObjection
    <3>2. CASE k = at
      <4>1. argv'.options[k] = o
        BY <2>1, <3>2 DEF o, Option
      <4>2. o.o = "p" => PwLength(o.text) > MinBytes
        <5>1. o.o = "p" => PwLength(o.text) \in Nat
          <6>1. at \in 1 .. Len(argv.options)
            BY <1>1, <1>2
          <6>. QED
            BY <1>3, <6>1 DEF ArgsTyped, Option, o
        <5>. QED
          BY <1>5, <5>1, CommandFacts DEF Objection
      <4>3. o.o = "P" => o.file \in KeyFiles
        BY <1>5, CommandFacts DEF Objection
      <4>4. o.o = "e" => args.encrypt
        BY <1>5, CommandFacts DEF Objection
      <4>5. o.o = "e" => \A j \in 1 .. k : argv'.options[j].o # "d"
        BY <1>1, <1>3, <2>1, <3>2, <4>1, <4>4 DEF OptionsTaken, Seen
      <4>. QED
        BY <4>1, <4>2, <4>3, <4>5
    <3>3. CASE k \in 1 .. at - 1
      BY <1>3, <2>1, <3>3 DEF OptionsTaken, NoObjection
    <3>. QED
      BY <1>1, <2>1, <3>2, <3>3
  <2>8. OptionsTaken'
    <3>1. args'.encrypt <=> ~Seen("d")'
      BY <1>3, <2>2, <2>4 DEF OptionsTaken
    <3>2. args'.hash_from_file <=> Seen("P")'
      BY <1>3, <2>2, <2>4 DEF OptionsTaken
    <3>3. args'.password # NoPassword /\ ~args'.password.heap => Seen("p")'
      BY <1>3, <2>2, <2>4 DEF OptionsTaken
    <3>4. args'.free => Seen("P")' \/ args'.password.heap
      BY <1>3, <2>2, <2>4 DEF OptionsTaken
    <3>. QED
      BY <2>6, <2>7, <3>1, <3>2, <3>3, <3>4 DEF OptionsTaken
  <2>9. Accepted'
    <3>1. o.o # "?"
      BY DEF o, TakeOption
    <3>. QED
      BY <1>2, <1>3, <2>1, <2>2, <2>5, <3>1 DEF Accepted, Running
  <2>. QED
    BY <2>3, <2>8, <2>9 DEF ArgsInv
<1>. QED
  BY <1>4, <1>5

LEMMA MainStepKeeps ==
  ASSUME ArgsInv, MainStep, UNCHANGED runs
  PROVE  ArgsInv'
<1>1. CASE TakeOption
  BY <1>1, TakeOptionKeeps
<1>2. CASE ShowAndEnd
  <2>1. UNCHANGED commandVars /\ pc' = "end"
    BY <1>2 DEF ShowAndEnd, commandVars
  <2>2. ArgsTyped' /\ OptionsTaken'
    BY <2>1, SameCommand DEF ArgsInv, ArgsTyped
  <2>3. Accepted'
    BY <2>1 DEF Accepted, Running
  <2>. QED
    BY <2>2, <2>3 DEF ArgsInv
<1>3. CASE UnknownOption
  <2>1. /\ pc = "parse" /\ Option.o = "?" /\ at <= Len(argv.options)
        /\ status' = "ARG_PARSING_FAIL" /\ at' = at + 1
        /\ UNCHANGED <<argv, args, pc>>
    BY <1>3 DEF UnknownOption, Parsing
  <2>2. Len(argv.options) \in Nat /\ at \in 1 .. Len(argv.options) + 1
    BY ArgsFacts
  <2>3. \A letter : Seen(letter)' <=> Seen(letter) \/ Option.o = letter
    BY <2>1, <2>2, SeenNext
  <2>4. ArgsTyped'
    <3>1. at' \in 1 .. Len(argv.options) + 1
      BY <2>1, <2>2
    <3>. QED
      BY <2>1, <3>1, ArgsFacts DEF ArgsTyped
  <2>5. RenameTaken'
    <3>1. RenameTaken /\ (Seen("r")' <=> Seen("r"))
      BY <2>1, <2>3, ArgsFacts DEF OptionsTaken
    <3>2. ASSUME NEW k \in 1 .. at - 1, \A j \in k + 1 .. at - 1 : argv.options[j].o # "r"
          PROVE  k \in 1 .. at' - 1 /\ \A j \in k + 1 .. at' - 1 : argv.options[j].o # "r"
      <4>1. \A j \in k + 1 .. at' - 1 : j = at \/ j \in k + 1 .. at - 1
        BY <2>1, <2>2
      <4>2. k \in 1 .. at' - 1 /\ argv.options[at].o # "r"
        BY <2>1, <2>2 DEF Option
      <4>. QED
        BY <3>2, <4>1, <4>2
    <3>. QED
      BY <2>1, <3>1, <3>2 DEF RenameTaken
  <2>6. NoObjection'
    <3>1. \A k \in 1 .. at' - 1 : k = at \/ k \in 1 .. at - 1
      BY <2>1, <2>2
    <3>. QED
      BY <2>1, <2>2, <3>1 DEF ArgsInv, OptionsTaken, NoObjection, Option
  <2>7. OptionsTaken'
    BY <2>1, <2>3, <2>5, <2>6 DEF ArgsInv, OptionsTaken
  <2>8. Accepted'
    BY <2>1, CommandFacts, ArgsFacts DEF Accepted, Running
  <2>. QED
    BY <2>4, <2>7, <2>8 DEF ArgsInv
<1>4. CASE askPassword
  <2>1. pc = "ask" /\ UNCHANGED <<argv, at, status>>
    BY <1>4 DEF askPassword
  <2>2. CASE UNCHANGED <<args, pc>>
    <3>1. ArgsTyped' /\ OptionsTaken' /\ (Seen("?")' <=> Seen("?"))
      BY <2>1, <2>2, SameCommand DEF ArgsInv, ArgsTyped, commandVars
    <3>2. Accepted'
      BY <2>1, <2>2, <3>1 DEF ArgsInv, Accepted, Running
    <3>. QED
      BY <3>1, <3>2 DEF ArgsInv
  <2>3. CASE ~UNCHANGED <<args, pc>>
    <3>1. PICK text :
            /\ args' = [args EXCEPT !.password = [text |-> text, heap |-> TRUE], !.free = TRUE]
            /\ pc' = "run"
      BY <1>4, <2>3 DEF askPassword
    <3>2. DOMAIN args = Fields
      BY DEF ArgsInv, ArgsTyped
    <3>3. /\ DOMAIN args' = Fields
          /\ args'.password.heap = TRUE
          /\ args'.encrypt = args.encrypt /\ args'.hash_from_file = args.hash_from_file
          /\ args'.state_size = args.state_size /\ args'.rename = args.rename
      BY <3>1, <3>2 DEF Fields
    <3>4. \A letter : Seen(letter)' <=> Seen(letter)
      BY <2>1 DEF Seen
    <3>5. ArgsTyped'
      BY <2>1, <3>3 DEF ArgsInv, ArgsTyped
    <3>6. RenameTaken'
      BY <2>1, <3>3, <3>4 DEF ArgsInv, OptionsTaken, RenameTaken
    <3>7. NoObjection'
      BY <2>1 DEF ArgsInv, OptionsTaken, NoObjection
    <3>8. OptionsTaken'
      BY <3>3, <3>4, <3>6, <3>7 DEF ArgsInv, OptionsTaken
    <3>9. Accepted'
      <4>1. args'.password # NoPassword
        <5>1. NoPassword.heap = FALSE
          BY DEF NoPassword
        <5>. QED
          BY <3>3, <5>1
      <4>. QED
        BY <2>1, <3>1, <3>4, <4>1 DEF ArgsInv, Accepted, Running
    <3>. QED
      BY <3>5, <3>8, <3>9 DEF ArgsInv
  <2>. QED
    BY <2>2, <2>3
<1>. QED
  BY <1>1, <1>2, <1>3, <1>4 DEF MainStep

LEMMA CheckTargetKeeps ==
  ASSUME ArgsInv, NEW there, CheckTarget(there), UNCHANGED runs
  PROVE  ArgsInv'
<1>1. /\ pc = "parse" /\ at > Len(argv.options) /\ UNCHANGED commandVars
  BY DEF CheckTarget, commandVars
<1>2. /\ ArgsTyped' /\ OptionsTaken'
      /\ Seen("?")' <=> Seen("?")
  BY <1>1, SameCommand DEF ArgsInv, ArgsTyped
<1>3. /\ pc' = "end" \/ (pc' \in {"ask", "run"} /\ status = SuccessStatus /\ status' = SuccessStatus)
      /\ pc' = "run" => args.hash_from_file \/ args.password # NoPassword
  BY CommandFacts DEF CheckTarget
<1>4. at = Len(argv.options) + 1
  BY <1>1, ArgsFacts
<1>5. Accepted'
  BY <1>1, <1>2, <1>3, <1>4 DEF ArgsInv, Accepted, Running, commandVars
<1>. QED
  BY <1>2, <1>5 DEF ArgsInv

LEMMA StartKeeps ==
  ASSUME ArgsInv, Begin
  PROVE  ArgsInv'
<1>1. PICK command \in Commands(runs + 1) : Start(command)
  BY DEF Begin
<1>2. /\ argv' = command /\ at' = 1 /\ args' = initArguments
      /\ status' = SuccessStatus /\ pc' = "parse"
  BY <1>1 DEF Start
<1>3. runs' = runs + 1 /\ runs < MaxRuns
  BY DEF Begin
<1>4. runs + 1 \in 1 .. MaxRuns
  BY <1>3, CommandFacts, ArgsFacts
<1>5. /\ command.options \in Seq({command.options[k] : k \in DOMAIN command.options})
      /\ \A k \in DOMAIN command.options : LET option == command.options[k] IN
           /\ option.o = "b" => option.size \in {4, 8, 16}
           /\ option.o = "r" => option.file # ""
           /\ option.o = "p" => PwLength(option.text) \in Nat
  BY <1>4, CommandsAssumption
<1>6. Len(command.options) \in Nat /\ DOMAIN command.options = 1 .. Len(command.options)
  <2>. DEFINE S == {command.options[k] : k \in DOMAIN command.options}
  <2>1. command.options \in Seq(S)
    BY <1>5
  <2>. QED
    BY ONLY <2>1, LenProperties
<1>7. DOMAIN args' = Fields /\ args'.state_size \in {4, 8, 16}
  BY <1>2 DEF initArguments, Fields
<1>8. ArgsTyped'
  <2>1. at' \in 1 .. Len(command.options) + 1
    BY <1>2, <1>6
  <2>2. runs' \in 0 .. MaxRuns
    BY <1>3, <1>4
  <2>. QED
    BY <1>2, <1>5, <1>6, <1>7, <2>1, <2>2 DEF ArgsTyped
<1>9. \A letter : ~Seen(letter)'
  BY <1>2 DEF Seen
<1>10. /\ args'.encrypt = TRUE /\ args'.hash_from_file = FALSE /\ args'.rename = ""
       /\ args'.password = NoPassword /\ args'.free = FALSE
       /\ NoPassword.heap = FALSE
  BY <1>2 DEF initArguments, NoPassword
<1>11. RenameTaken' /\ NoObjection'
  <2>1. RenameTaken'
    BY <1>9, <1>10 DEF RenameTaken
  <2>2. at' = 1
    BY <1>2
  <2>3. NoObjection'
    BY <2>2 DEF NoObjection
  <2>. QED
    BY <2>1, <2>3
<1>12. OptionsTaken'
  BY <1>9, <1>10, <1>11 DEF OptionsTaken
<1>13. Accepted'
  BY <1>2, <1>9, <1>10 DEF Accepted, Running
<1>. QED
  BY <1>8, <1>12, <1>13 DEF ArgsInv

\* What the run does leaves the command line alone.
LEMMA RunKeeps ==
  ASSUME ArgsInv, UNCHANGED <<commandVars, runs>>,
         \/ pc' = "end"
         \/ pc' = "idle" /\ pc = "idle"
         \/ Running /\ Running' /\ UNCHANGED status
  PROVE  ArgsInv'
<1>1. UNCHANGED commandVars /\ runs' = runs
  OBVIOUS
<1>2. ArgsTyped' /\ OptionsTaken' /\ (Seen("?")' <=> Seen("?"))
  BY <1>1, SameCommand, ArgsFacts
<1>3. argv' = argv /\ at' = at /\ args' = args
  BY <1>1 DEF commandVars
<1>4. Accepted'
  BY <1>2, <1>3, ArgsFacts DEF Accepted, Running
<1>. QED
  BY <1>2, <1>4 DEF ArgsInv

LEMMA ForgetKeeps ==
  ASSUME ArgsInv, Forget, UNCHANGED runs
  PROVE  ArgsInv'
<1>1. at' = 1 /\ argv'.options = <<>> /\ args' = initArguments /\ pc' = "idle"
  BY DEF Forget
<1>2. DOMAIN args' = Fields /\ args'.state_size \in {4, 8, 16}
  BY <1>1 DEF initArguments, Fields
<1>3. ArgsTyped'
  <2>1. Len(argv'.options) = 0 /\ DOMAIN argv'.options = {}
    BY <1>1
  <2>2. runs' \in 0 .. MaxRuns
    BY ArgsFacts
  <2>. QED
    BY <1>1, <1>2, <2>1, <2>2 DEF ArgsTyped
<1>4. \A letter : ~Seen(letter)'
  <2>1. at' = 1
    BY <1>1
  <2>. QED
    BY <2>1 DEF Seen
<1>5. /\ args'.encrypt = TRUE /\ args'.hash_from_file = FALSE /\ args'.rename = ""
      /\ args'.password = NoPassword /\ args'.free = FALSE
  BY <1>1 DEF initArguments
<1>6. RenameTaken'
  BY <1>4, <1>5 DEF RenameTaken
<1>7. NoObjection'
  <2>1. at' = 1
    BY <1>1
  <2>. QED
    BY <2>1 DEF NoObjection
<1>8. OptionsTaken'
  BY <1>4, <1>5, <1>6, <1>7 DEF OptionsTaken
<1>9. Accepted'
  BY <1>1 DEF Accepted, Running
<1>. QED
  BY <1>3, <1>8, <1>9 DEF ArgsInv

LEMMA ArgsStep ==
  ASSUME ArgsInv, [Next]_vars
  PROVE  ArgsInv'
<1>1. CASE Begin
  BY <1>1, StartKeeps
<1>2. CASE MainOnly
  BY <1>2, MainStepKeeps, CheckTargetKeeps DEF MainOnly, pastVars
<1>3. CASE Refuse
  BY <1>3, RunKeeps DEF Refuse, Fail, pastVars
<1>4. CASE MakeKeys
  BY <1>4, RunKeeps DEF MakeKeys, pastVars, Running
<1>5. CASE OpenTemp
  BY <1>5, RunKeeps DEF OpenTemp, pastVars, Running
<1>6. CASE WriteNext
  BY <1>6, RunKeeps DEF WriteNext, pastVars, Running
<1>7. CASE RunFails
  BY <1>7, RunKeeps DEF RunFails, Fail, pastVars
<1>8. CASE Rename
  BY <1>8, RunKeeps DEF Rename, Running
<1>9. CASE JoinAndCleanUp
  BY <1>9, RunKeeps DEF JoinAndCleanUp, pastVars
<1>10. CASE Exit \/ Kill
  BY <1>10, ForgetKeeps DEF Exit, Kill
<1>11. CASE Edit
  BY <1>11, RunKeeps DEF Edit, mainVars, commandVars
<1>12. CASE UNCHANGED vars
  <2>1. UNCHANGED <<commandVars, runs, pc, status>>
    BY <1>12 DEF vars, mainVars, commandVars, pastVars
  <2>2. ArgsTyped' /\ OptionsTaken' /\ (Seen("?")' <=> Seen("?"))
    BY <2>1, SameCommand, ArgsFacts
  <2>3. Accepted'
    BY <2>1, <2>2, ArgsFacts DEF Accepted, Running, commandVars
  <2>. QED
    BY <2>2, <2>3 DEF ArgsInv
<1>. QED
  BY <1>1, <1>2, <1>3, <1>4, <1>5, <1>6, <1>7, <1>8, <1>9, <1>10, <1>11, <1>12 DEF Next

-----------------------------------------------------------------------------

\* Every option has been seen when the target is looked at.
LEMMA AllSeen ==
  ASSUME ArgsInv
  PROVE  /\ \A letter : Seen(letter) => Given(letter)
         /\ at = Len(argv.options) + 1 => \A letter : Given(letter) => Seen(letter)
<1>1. Len(argv.options) \in Nat /\ at \in 1 .. Len(argv.options) + 1
  BY ArgsFacts
<1>2. DOMAIN argv.options = 1 .. Len(argv.options)
  BY ArgsFacts DEF ArgsTyped
<1>. QED
  BY <1>1, <1>2 DEF Seen, Given

\* The destination is that of the last -r.
LEMMA DestinationWanted ==
  ASSUME ArgsInv, Running
  PROVE  Destination = Wanted
<1>1. /\ Len(argv.options) \in Nat /\ at = Len(argv.options) + 1
      /\ DOMAIN argv.options = 1 .. Len(argv.options)
  BY ArgsFacts DEF Accepted, ArgsTyped
<1>2. CASE ~Seen("r")
  <2>1. args.rename = ""
    BY <1>2, ArgsFacts DEF OptionsTaken, RenameTaken, Seen
  <2>. QED
    BY <1>1, <1>2, <2>1, AllSeen DEF Wanted, Destination
<1>3. CASE Seen("r")
  <2>. DEFINE IsLast(k) == /\ argv.options[k].o = "r"
                           /\ \A j \in k + 1 .. Len(argv.options) : argv.options[j].o # "r"
  <2>1. PICK k \in DOMAIN argv.options : IsLast(k) /\ argv.options[k].file = args.rename
    <3>1. RenameTaken
      BY ArgsFacts DEF OptionsTaken
    <3>2. 1 .. at - 1 = DOMAIN argv.options /\ at - 1 = Len(argv.options)
      BY <1>1
    <3>. QED
      BY <1>3, <3>1, <3>2 DEF RenameTaken
  <2>2. args.rename # ""
    BY <1>1, <2>1, ArgsFacts DEF ArgsTyped
  <2>3. LastGiven("r") \in DOMAIN argv.options /\ IsLast(LastGiven("r"))
    BY <2>1 DEF LastGiven
  <2>4. LastGiven("r") = k
    BY <1>1, <2>1, <2>3
  <2>5. Given("r")
    BY <1>3, AllSeen
  <2>. QED
    BY <2>1, <2>2, <2>4, <2>5 DEF Wanted, Destination
<1>. QED
  BY <1>2, <1>3

-----------------------------------------------------------------------------

\* Whatever the options are and in whatever order: main gives runThreefizer the
\* direction -d asks for, and a secret, and no command line it should refuse.
THEOREM Asked ==
  Spec => []AsAsked
<1>1. ASSUME ArgsInv PROVE AsAsked
  <2>. SUFFICES ASSUME pc \in {"run", "open"} PROVE AsAsked
    BY DEF AsAsked
  <2>1. at = Len(argv.options) + 1 /\ Running
    BY <1>1, ArgsFacts DEF Accepted, Running
  <2>2. \A letter : Seen(letter) <=> Given(letter)
    BY <1>1, <2>1, AllSeen
  <2>3. \A k \in DOMAIN argv.options : k \in 1 .. at - 1
    <3>1. DOMAIN argv.options = 1 .. Len(argv.options) /\ Len(argv.options) \in Nat
      BY <1>1, ArgsFacts DEF ArgsTyped
    <3>. QED
      BY <2>1, <3>1
  <2>4. /\ args.encrypt <=> ~Given("d")
        /\ args.hash_from_file <=> Given("P")
        /\ args.hash_from_file \/ args.password # NoPassword
        /\ ~Given("?")
    BY <1>1, <2>1, <2>2, ArgsFacts DEF OptionsTaken, Accepted
  <2>5. NoObjection
    BY <1>1, ArgsFacts DEF OptionsTaken
  <2>. QED
    BY <2>3, <2>4, <2>5 DEF AsAsked, NoObjection
<1>. QED
  BY <1>1, ArgsInit, ArgsStep, PTL DEF Spec

\* main frees a string of argv only when a password and a key file are given.
THEOREM Frees ==
  Spec => []FreesOwn
<1>1. ASSUME ArgsInv PROVE FreesOwn
  <2>1. FreesArgv => Seen("p") /\ Seen("P")
    BY <1>1, ArgsFacts DEF FreesArgv, OptionsTaken
  <2>. QED
    BY <1>1, <2>1, AllSeen DEF FreesOwn
<1>. QED
  BY <1>1, ArgsInit, ArgsStep, PTL DEF Spec

-----------------------------------------------------------------------------
(***************************************************************************)
(* What run after run leaves of the files, for every set of command lines, *)
(* any number of runs, and any contents and edits.                         *)
(***************************************************************************)
IsSeq(s) == s \in Seq({s[k] : k \in DOMAIN s})

\* A file as a run or the user may leave it.
Kept(file) ==
  /\ IsSeq(file)
  /\ file \in had \/ (leftover /\ \E contents \in had : HasTail(file, contents))

\* OfJunk, of the recipe of a key.
JunkRecipe(r) == ~r[1] /\ (r[2] = Unread \/ (~r[3] /\ EntryLength(r[2]) < 8 * r[5]))

\* A key that handleKeys may have made with this IV.
KeyOK(k, salt) ==
  \E recipe, junk, s :
    /\ k = [recipe |-> recipe, junk |-> junk, salt |-> s]
    /\ ~JunkRecipe(recipe) => junk = 0
    /\ s = NoSalt \/ (recipe[4] /\ s = salt)

\* A header stands for a file that was kept, and has a key.
HeadOK(cell) ==
  cell.kind = "header" =>
    cell.of # <<>> /\ Kept(cell.of) /\ KeyOK(cell.key, cell.iv)

\* The contents of the files, of the temporary ones, and what they were.
FilesKept ==
  /\ \A file \in had : IsSeq(file) /\ (file # <<>> => HeadOK(file[1]))
  /\ \A name \in DOMAIN files : Kept(files[name])
  /\ \A t \in DOMAIN temps : IsSeq(temps[t])
  /\ had # {}

\* What the run has to write is made of its target.
OutputMade ==
  /\ pc = "ask" \/ Running => argv.file \in DOMAIN files
  /\ pc \in {"open", "write"} =>
       /\ Target # <<>> /\ key \in KeysOf(args, iv) /\ iv = SaltOf(args, Target, runs)
       /\ output = IF args.encrypt THEN Encrypted(Target, key, iv)
                   ELSE IF HeaderGood(Target) THEN Target[1].of ELSE <<>>
  /\ pc = "placed" => IsSeq(output)
  /\ pc \in {"idle", "parse", "ask", "run"} => output = <<>>

\* The temporary file, from its opening to the end.
TempWritten ==
  /\ pc \in {"idle", "parse", "ask", "run", "open"} => done = NULL /\ ~replaced
  /\ pc = "write" =>
       /\ ~replaced
       /\ IsSeq(done) /\ IsPrefix(done, output)
       /\ Temp \in DOMAIN temps
       /\ done # <<>> => HasTail(temps[Temp], done)
       /\ ~leftover => temps[Temp] = done
  /\ pc = "placed" =>
       IF replaced THEN done = NULL
       ELSE done = output /\ leftover /\ Temp \in DOMAIN temps /\ IsPrefix(done, temps[Temp])
  /\ pc = "end" /\ done # NULL =>
       /\ Temp \in DOMAIN temps /\ IsPrefix(done, temps[Temp])
       /\ IsPrefix(done, output)

NothingLeft ==
  ~leftover => DOMAIN temps = IF pc = "write" THEN {Temp} ELSE {}

\* The run changes nothing but its destination, and that in the end.
OthersUntouched ==
  /\ pc \in {"parse", "ask", "run", "open", "write"} => before = files
  /\ pc = "placed" =>
       /\ Without(files, Wanted) = Without(before, Wanted)
       /\ replaced => Wanted \in DOMAIN files /\ IsPrefix(output, files[Wanted])

\* Only RunFails reports a bad header.
HeaderBlamed == status = "HEADER_CHECK_FAIL" => pc = "end"

RunsInv ==
  /\ FilesKept /\ OutputMade /\ TempWritten /\ NothingLeft /\ OthersUntouched
  /\ HeaderBlamed
  /\ Delivered /\ SameSecretOpens
  /\ pc \in {"idle", "parse", "ask", "run", "open", "write", "placed", "end"}

SessionInv == ArgsInv /\ RunsInv

-----------------------------------------------------------------------------
(* Sequences of whatever they are of *)

LEMMA SeqIntro ==
  ASSUME NEW S, NEW s \in Seq(S)
  PROVE  IsSeq(s)
<1>. DEFINE T == {s[k] : k \in DOMAIN s}
<1>1. Len(s) \in Nat /\ s \in [1 .. Len(s) -> S] /\ DOMAIN s = 1 .. Len(s)
  BY LenProperties
<1>2. s \in [1 .. Len(s) -> T]
  BY <1>1
<1>3. s \in Seq(T)
  BY <1>1, <1>2, SeqDef
<1>. QED
  BY <1>3 DEF IsSeq

LEMMA SeqFacts ==
  ASSUME NEW s, IsSeq(s)
  PROVE  /\ Len(s) \in Nat /\ DOMAIN s = 1 .. Len(s)
         /\ s # <<>> => Len(s) > 0
         /\ \E S : s \in Seq(S)
<1>. DEFINE T == {s[k] : k \in DOMAIN s}
<1>1. s \in Seq(T)
  BY DEF IsSeq
<1>. HIDE DEF T
<1>. QED
  BY <1>1, LenProperties, EmptySeq

\* Two sequences are sequences of the same set.
LEMMA SeqBoth ==
  ASSUME NEW s, NEW t, IsSeq(s), IsSeq(t)
  PROVE  \E S : s \in Seq(S) /\ t \in Seq(S)
<1>1. PICK S : s \in Seq(S)
  BY SeqFacts
<1>2. PICK T : t \in Seq(T)
  BY SeqFacts
<1>3. S \subseteq S \cup T /\ T \subseteq S \cup T
  OBVIOUS
<1>. DEFINE U == S \cup T
<1>4. s \in Seq(U) /\ t \in Seq(U)
  BY <1>1, <1>2, <1>3, SeqMonotonic
<1>. QED
  BY <1>4

LEMMA SeqSame ==
  ASSUME NEW s, NEW t, IsSeq(s), IsSeq(t), Len(s) = Len(t),
         \A k \in 1 .. Len(s) : s[k] = t[k]
  PROVE  s = t
<1>1. PICK S : s \in Seq(S) /\ t \in Seq(S)
  BY SeqBoth
<1>. QED
  BY <1>1, SeqEqual

LEMMA SeqEmpty ==
  IsSeq(<<>>) /\ Len(<<>>) = 0
<1>1. <<>> \in Seq({})
  OBVIOUS
<1>. QED
  BY <1>1, SeqIntro

LEMMA SeqAppend ==
  ASSUME NEW s, NEW e, IsSeq(s)
  PROVE  /\ IsSeq(Append(s, e)) /\ Len(Append(s, e)) = Len(s) + 1
         /\ Append(s, e)[Len(s) + 1] = e
         /\ \A k \in 1 .. Len(s) : Append(s, e)[k] = s[k]
         /\ Append(s, e) # <<>>
<1>1. PICK S : s \in Seq(S)
  BY SeqFacts
<1>. DEFINE U == S \cup {e}
<1>2. s \in Seq(U)
  BY <1>1, SeqMonotonic
<1>3. e \in U
  OBVIOUS
<1>. HIDE DEF U
<1>4. Append(s, e) \in Seq(U) /\ Len(s) \in Nat
  BY <1>2, <1>3
<1>5. /\ Len(Append(s, e)) = Len(s) + 1
      /\ Append(s, e)[Len(s) + 1] = e
      /\ \A k \in 1 .. Len(s) : Append(s, e)[k] = s[k]
  BY <1>2, <1>3
<1>6. IsSeq(Append(s, e))
  BY <1>4, SeqIntro
<1>7. Append(s, e) # <<>>
  BY <1>4, <1>5, SeqEmpty
<1>. QED
  BY <1>5, <1>6, <1>7

LEMMA PrefixFacts ==
  ASSUME NEW s, NEW t, IsSeq(s), IsSeq(t)
  PROVE  IsPrefix(s, t) <=> Len(s) <= Len(t) /\ \A k \in 1 .. Len(s) : s[k] = t[k]
<1>1. PICK S : s \in Seq(S) /\ t \in Seq(S)
  BY SeqBoth
<1>2. Len(s) \in Nat /\ Len(t) \in Nat
  BY SeqFacts
<1>3. CASE Len(s) <= Len(t)
  <2>1. /\ Len(SubSeq(s, 1, Len(s))) = Len(s)
        /\ Len(SubSeq(t, 1, Len(s))) = Len(s)
        /\ \A k \in 1 .. Len(s) : SubSeq(s, 1, Len(s))[k] = s[k] /\ SubSeq(t, 1, Len(s))[k] = t[k]
        /\ SubSeq(s, 1, Len(s)) \in Seq(S) /\ SubSeq(t, 1, Len(s)) \in Seq(S)
    BY <1>1, <1>2, <1>3
  <2>2. (\A k \in 1 .. Len(s) : s[k] = t[k]) => SubSeq(s, 1, Len(s)) = SubSeq(t, 1, Len(s))
    BY <2>1, SeqEqual
  <2>. QED
    BY <1>3, <2>1, <2>2 DEF IsPrefix
<1>. QED
  BY <1>3 DEF IsPrefix

-----------------------------------------------------------------------------
(* Contents *)

\* A tail of a tail.
LEMMA TailOfTail ==
  ASSUME NEW a, NEW b, NEW c, IsSeq(a), IsSeq(b), IsSeq(c), HasTail(a, b), HasTail(b, c)
  PROVE  HasTail(a, c)
<1>1. Len(a) \in Nat /\ Len(b) \in Nat /\ Len(c) \in Nat
  BY SeqFacts
<1>2. Len(b) <= Len(a) /\ \A k \in 1 .. Len(b) : b[k] = a[k]
  BY PrefixFacts DEF HasTail
<1>3. Len(c) <= Len(b) /\ \A k \in 1 .. Len(c) : c[k] = b[k]
  BY PrefixFacts DEF HasTail
<1>4. IsPrefix(c, a)
  <2>1. Len(c) <= Len(a) /\ \A k \in 1 .. Len(c) : c[k] = a[k]
    BY <1>1, <1>2, <1>3
  <2>. QED
    BY <2>1, PrefixFacts
<1>5. ASSUME NEW k \in Len(c) + 1 .. Len(a) PROVE a[k].kind = "rest"
  <2>1. CASE k \in Len(b) + 1 .. Len(a)
    BY <2>1 DEF HasTail
  <2>2. CASE k \in Len(c) + 1 .. Len(b)
    <3>1. b[k].kind = "rest"
      BY <2>2 DEF HasTail
    <3>2. k \in 1 .. Len(b)
      BY <1>1, <2>2
    <3>. QED
      BY <1>2, <3>1, <3>2
  <2>. QED
    BY <1>1, <2>1, <2>2
<1>. QED
  BY <1>4, <1>5 DEF HasTail

\* What is written over something longer keeps only its tail.
LEMMA OverlayFacts ==
  ASSUME NEW cells, NEW old, IsSeq(cells)
  PROVE  /\ IsSeq(Overlay(cells, old)) /\ HasTail(Overlay(cells, old), cells)
         /\ IsPrefix(old, cells) => Overlay(cells, old) = cells
<1>. DEFINE rest == Cell("rest", Words(old) - Words(cells))
<1>1. Overlay(cells, old) = cells \/ Overlay(cells, old) = Append(cells, rest)
  BY DEF Overlay
<1>2. IsPrefix(old, cells) => Overlay(cells, old) = cells
  BY DEF Overlay
<1>3. rest.kind = "rest"
  BY DEF Cell
<1>. HIDE DEF rest
<1>4. Len(cells) \in Nat
  BY SeqFacts
<1>5. HasTail(cells, cells)
  BY <1>4, PrefixFacts DEF HasTail
<1>6. IsSeq(Append(cells, rest)) /\ HasTail(Append(cells, rest), cells)
  <2>. DEFINE longer == Append(cells, rest)
  <2>1. /\ IsSeq(longer) /\ Len(longer) = Len(cells) + 1
        /\ longer[Len(cells) + 1] = rest
        /\ \A k \in 1 .. Len(cells) : cells[k] = longer[k]
    BY SeqAppend
  <2>. HIDE DEF longer
  <2>2. Len(cells) <= Len(longer)
    BY <1>4, <2>1
  <2>3. IsPrefix(cells, longer)
    BY <2>1, <2>2, PrefixFacts
  <2>4. HasTail(longer, cells)
    BY <1>3, <1>4, <2>1, <2>3 DEF HasTail
  <2>. QED
    BY <2>1, <2>4 DEF longer
<1>. QED
  BY <1>1, <1>2, <1>5, <1>6

\* The first cell of what was kept is a good header, if it is one.
LEMMA KeptHead ==
  ASSUME FilesKept, NEW file, Kept(file), file # <<>>
  PROVE  HeadOK(file[1])
<1>1. CASE file \in had
  BY <1>1 DEF FilesKept
<1>2. CASE leftover /\ \E contents \in had : HasTail(file, contents)
  <2>1. PICK contents \in had : HasTail(file, contents)
    BY <1>2
  <2>2. IsSeq(contents) /\ IsSeq(file)
    BY DEF FilesKept, Kept
  <2>3. Len(file) \in Nat /\ Len(file) > 0
    BY <2>2, SeqFacts
  <2>4. CASE contents = <<>>
    <3>1. Len(contents) = 0
      BY <2>4, SeqEmpty
    <3>2. file[1].kind = "rest"
      BY <2>1, <2>3, <3>1 DEF HasTail
    <3>. QED
      BY <3>2 DEF HeadOK
  <2>5. CASE contents # <<>>
    <3>1. Len(contents) \in Nat /\ Len(contents) > 0
      BY <2>2, <2>5, SeqFacts
    <3>2. file[1] = contents[1]
      BY <2>1, <2>2, <3>1, PrefixFacts DEF HasTail
    <3>. QED
      BY <2>5, <3>2 DEF FilesKept
  <2>. QED
    BY <2>4, <2>5
<1>. QED
  BY <1>1, <1>2 DEF Kept

LEMMA KeptGrows ==
  ASSUME had \subseteq had', leftover => leftover'
  PROVE  /\ \A file : Kept(file) => Kept(file)'
         /\ \A cell : HeadOK(cell) => HeadOK(cell)'
<1>1. ASSUME NEW file, Kept(file) PROVE Kept(file)'
  BY <1>1 DEF Kept
<1>2. ASSUME NEW cell, HeadOK(cell) PROVE HeadOK(cell)'
  BY <1>1, <1>2 DEF HeadOK
<1>. QED
  BY <1>1, <1>2

LEMMA FilesSame ==
  ASSUME FilesKept, UNCHANGED <<files, temps, had>>, leftover => leftover'
  PROVE  FilesKept'
<1>1. \A file \in had : file # <<>> => HeadOK(file[1])'
  <2>1. ASSUME NEW file \in had, file # <<>> PROVE HeadOK(file[1])'
    <3>1. HeadOK(file[1])
      BY <2>1 DEF FilesKept
    <3>. QED
      BY <3>1, KeptGrows
  <2>. QED
    BY <2>1
<1>2. \A name \in DOMAIN files : Kept(files[name])'
  BY DEF FilesKept, Kept
<1>. QED
  BY <1>1, <1>2 DEF FilesKept

\* What encryption makes of a file has one header, in front.
LEMMA EncryptedFacts ==
  ASSUME NEW file, NEW k, NEW salt, IsSeq(file)
  PROVE  LET made == Encrypted(file, k, salt) IN
         /\ IsSeq(made) /\ made # <<>>
         /\ made[1].of = file /\ made[1].key = k /\ made[1].iv = salt
<1>. DEFINE size == KeySize(k)
            part(kind, words) == [Cell(kind, words) EXCEPT !.key = k, !.iv = salt]
            head == [part("header", 2 * size) EXCEPT !.of = file]
            body == [n \in DOMAIN file |-> [part("cipher", Padded(file[n].words, size)) EXCEPT !.nr = n]]
            last == part("mac", size)
            S == {head, last} \cup {body[n] : n \in DOMAIN file}
<1>1. head.of = file /\ head.key = k /\ head.iv = salt
  BY DEF Cell
<1>2. Encrypted(file, k, salt) = <<head>> \o body \o <<last>>
  BY DEF Encrypted
<1>3. Len(file) \in Nat /\ DOMAIN file = 1 .. Len(file)
  BY SeqFacts
<1>4. body \in [1 .. Len(file) -> S]
  BY <1>3
<1>5. body \in Seq(S)
  BY <1>3, <1>4, SeqDef
<1>6. head \in S /\ last \in S
  OBVIOUS
<1>. HIDE DEF head, body, last, S
<1>7. <<head>> \in Seq(S) /\ <<last>> \in Seq(S)
  BY <1>6
<1>8. <<head>> \o body \in Seq(S) /\ Len(<<head>> \o body) >= 1 /\ (<<head>> \o body)[1] = head
  BY <1>5, <1>7, ConcatProperties, LenProperties
<1>. DEFINE front == <<head>> \o body
<1>. HIDE DEF front
<1>9. /\ front \o <<last>> \in Seq(S) /\ Len(front \o <<last>>) >= 1
      /\ (front \o <<last>>)[1] = head
  BY <1>7, <1>8, ConcatProperties, LenProperties DEF front
<1>. DEFINE whole == front \o <<last>>
<1>. HIDE DEF whole
<1>10. IsSeq(whole) /\ whole # <<>>
  <2>1. whole \in Seq(S) /\ Len(whole) >= 1
    BY <1>9 DEF whole
  <2>. QED
    BY <2>1, SeqIntro, SeqEmpty
<1>. QED
  BY <1>1, <1>2, <1>9, <1>10 DEF front, whole

\* A key is what handleKeys makes it of.
LEMMA KeyFacts ==
  ASSUME NEW a, NEW salt, NEW k \in KeysOf(a, salt)
  PROVE  /\ KeyOK(k, salt)
         /\ k.recipe = Recipe(a)
         /\ ~OfJunk(a) => k.junk = 0
         /\ IF Stretched(a) THEN k.salt \in {salt, NoSalt} ELSE k.salt = NoSalt
         /\ k = [recipe |-> k.recipe, junk |-> k.junk, salt |-> k.salt]
         /\ JunkRecipe(Recipe(a)) <=> OfJunk(a)
         /\ Recipe(a)[4] <=> Stretched(a)
         /\ Recipe(a)[5] = a.state_size
<1>1. PICK j, s : /\ k = [recipe |-> Recipe(a), junk |-> j, salt |-> s]
                  /\ j \in IF OfJunk(a) THEN Junk ELSE {0}
                  /\ s \in IF Stretched(a) THEN {salt, NoSalt} ELSE {NoSalt}
  BY DEF KeysOf
<1>2. k.recipe = Recipe(a) /\ k.junk = j /\ k.salt = s
  BY <1>1
<1>3. /\ Recipe(a)[1] = a.hash_from_file
      /\ Recipe(a)[2] = IF a.hash_from_file THEN a.key_file ELSE a.password.text
      /\ Recipe(a)[3] = a.hash /\ Recipe(a)[4] = Stretched(a)
      /\ Recipe(a)[5] = a.state_size
  BY DEF Recipe
<1>4. JunkRecipe(Recipe(a)) <=> OfJunk(a)
  BY <1>3 DEF JunkRecipe, OfJunk, BlockBytesOf
<1>5. KeyOK(k, salt)
  BY <1>1, <1>3, <1>4 DEF KeyOK
<1>. QED
  BY <1>1, <1>2, <1>3, <1>4, <1>5

\* What a run has to write is whole, and when it is encrypted, a good file.
LEMMA OutputFacts ==
  ASSUME FilesKept, OutputMade, pc \in {"open", "write"}
  PROVE  /\ Kept(Target) /\ Target # <<>>
         /\ IsSeq(output)
         /\ args.encrypt => output # <<>> /\ HeadOK(output[1])
         /\ ~args.encrypt /\ HeaderGood(Target) => output # <<>> /\ Kept(output)
<1>1. Kept(Target) /\ Target # <<>>
  BY DEF FilesKept, OutputMade, Running, Target
<1>2. CASE args.encrypt
  <2>1. output = Encrypted(Target, key, iv) /\ IsSeq(Target)
    BY <1>1, <1>2 DEF OutputMade, Kept
  <2>2. /\ IsSeq(output) /\ output # <<>>
        /\ output[1].of = Target /\ output[1].key = key /\ output[1].iv = iv
    BY <2>1, EncryptedFacts
  <2>3. KeyOK(key, iv)
    BY KeyFacts DEF OutputMade
  <2>. QED
    BY <1>1, <1>2, <2>2, <2>3 DEF HeadOK
<1>3. CASE ~args.encrypt /\ HeaderGood(Target)
  <2>1. output = Target[1].of /\ Target[1].kind = "header"
    BY <1>3 DEF OutputMade, HeaderGood, Opens
  <2>2. HeadOK(Target[1])
    BY <1>1, KeptHead
  <2>. QED
    BY <1>1, <1>3, <2>1, <2>2 DEF HeadOK, Kept
<1>4. CASE ~args.encrypt /\ ~HeaderGood(Target)
  BY <1>1, <1>4, SeqEmpty DEF OutputMade
<1>. QED
  BY <1>2, <1>3, <1>4

-----------------------------------------------------------------------------
(* The steps *)

LEMMA RunsInit ==
  Init => RunsInv
<1>. SUFFICES ASSUME Init PROVE RunsInv
  OBVIOUS
<1>1. pc = "idle" /\ status = SuccessStatus
  BY DEF Init, MainInit
<1>2. FilesKept
  <2>1. /\ files \in FirstFiles /\ had = {files[name] : name \in DOMAIN files}
        /\ temps = [t \in {} |-> <<>>] /\ leftover = FALSE
    BY DEF Init
  <2>2. DOMAIN files # {} /\ \A name \in DOMAIN files : IsText(files[name])
    BY <2>1, FilesAssumption
  <2>3. ASSUME NEW name \in DOMAIN files
        PROVE  /\ IsSeq(files[name])
               /\ files[name] # <<>> => files[name][1].kind = "text"
    <3>1. IsSeq(files[name]) /\ \A k \in DOMAIN files[name] : files[name][k].kind = "text"
      BY <2>2 DEF IsText, IsSeq
    <3>2. files[name] # <<>> => 1 \in DOMAIN files[name]
      BY <3>1, SeqFacts
    <3>. QED
      BY <3>1, <3>2
  <2>4. \A file \in had : IsSeq(file) /\ (file # <<>> => HeadOK(file[1]))
    BY <2>1, <2>3 DEF HeadOK
  <2>5. \A name \in DOMAIN files : Kept(files[name])
    BY <2>1, <2>3 DEF Kept
  <2>6. DOMAIN temps = {} /\ had # {}
    BY <2>1, <2>2
  <2>. QED
    BY <2>4, <2>5, <2>6 DEF FilesKept
<1>3. output = <<>> /\ done = NULL /\ replaced = FALSE /\ DOMAIN temps = {}
  BY DEF Init
<1>4. OutputMade
  BY <1>1, <1>3 DEF OutputMade, Running
<1>5. TempWritten
  BY <1>1, <1>3 DEF TempWritten
<1>6. NothingLeft /\ OthersUntouched
  BY <1>1, <1>3 DEF NothingLeft, OthersUntouched
<1>7. status # "HEADER_CHECK_FAIL"
  BY <1>1, CommandFacts
<1>. QED
  BY <1>1, <1>2, <1>4, <1>5, <1>6, <1>7 DEF RunsInv, HeaderBlamed, Delivered, SameSecretOpens

\* Before and between the runs, and while the options are read, the disk and
\* what the last run left of its variables do not change.
LEMMA QuietKeeps ==
  ASSUME RunsInv, UNCHANGED <<diskVars, runVars, had, leftover>>,
         pc \in {"idle", "parse", "ask"}, pc' \in {"parse", "ask", "run", "end"},
         before' = files,
         pc' \in {"ask", "run"} => argv'.file \in DOMAIN files,
         status' # "HEADER_CHECK_FAIL"
  PROVE  RunsInv'
<1>1. UNCHANGED <<files, temps, output, done, replaced, had, leftover>>
  BY DEF diskVars, runVars
<1>2. FilesKept'
  BY <1>1, FilesSame DEF RunsInv
<1>3. output = <<>> /\ done = NULL /\ ~replaced /\ (~leftover => DOMAIN temps = {})
  BY DEF RunsInv, OutputMade, TempWritten, NothingLeft
<1>4. OutputMade'
  BY <1>1, <1>3 DEF OutputMade, Running
<1>5. TempWritten'
  BY <1>1, <1>3 DEF TempWritten
<1>6. NothingLeft'
  BY <1>1, <1>3 DEF NothingLeft
<1>7. OthersUntouched'
  BY <1>1 DEF OthersUntouched
<1>8. Delivered'
  BY <1>1, <1>3 DEF Delivered
<1>9. SameSecretOpens' /\ HeaderBlamed'
  BY DEF SameSecretOpens, HeaderBlamed
<1>. QED
  BY <1>2, <1>4, <1>5, <1>6, <1>7, <1>8, <1>9 DEF RunsInv

LEMMA BeginKeeps ==
  ASSUME RunsInv, Begin
  PROVE  RunsInv'
<1>1. /\ pc = "idle" /\ pc' = "parse" /\ status' = SuccessStatus /\ before' = files
      /\ UNCHANGED <<diskVars, runVars, had, leftover>>
  BY DEF Begin, Start
<1>2. status' # "HEADER_CHECK_FAIL"
  BY <1>1, CommandFacts
<1>. QED
  BY <1>1, <1>2, QuietKeeps

LEMMA MainKeeps ==
  ASSUME ArgsInv, RunsInv, MainOnly
  PROVE  RunsInv'
<1>1. UNCHANGED <<diskVars, runVars, had, leftover, before>>
  BY DEF MainOnly, pastVars
<1>2. /\ pc \in {"parse", "ask"} /\ pc' \in {"parse", "ask", "run", "end"}
      /\ UNCHANGED argv
      /\ pc' \in {"ask", "run"} => pc = "ask" \/ There
      /\ status' \in {status, "ARG_PARSING_FAIL", "PASSWORD_TOO_SHORT", "INVALID_PASSWORD_FILE",
                      "TOO_FEW_ARGUMENTS", "INVALID_TARGET_FILE"}
  <2>1. CASE TakeOption
    BY <2>1, CommandFacts DEF TakeOption, Parsing, Objection
  <2>2. CASE ShowAndEnd
    BY <2>2 DEF ShowAndEnd, Parsing
  <2>3. CASE UnknownOption
    BY <2>3 DEF UnknownOption, Parsing
  <2>4. CASE askPassword
    BY <2>4 DEF askPassword
  <2>5. CASE CheckTarget(There)
    BY <2>5, CommandFacts DEF CheckTarget
  <2>. QED
    BY <2>1, <2>2, <2>3, <2>4, <2>5 DEF MainOnly, MainStep
<1>3. before = files
  BY <1>2 DEF RunsInv, OthersUntouched
<1>4. status # "HEADER_CHECK_FAIL"
  BY <1>2 DEF RunsInv, HeaderBlamed
<1>5. pc' \in {"ask", "run"} => argv'.file \in DOMAIN files
  BY <1>2 DEF RunsInv, OutputMade, There
<1>. QED
  BY <1>1, <1>2, <1>3, <1>4, <1>5, QuietKeeps

LEMMA RefuseKeeps ==
  ASSUME ArgsInv, RunsInv, Refuse
  PROVE  RunsInv'
<1>1. /\ pc = "run" /\ pc' = "end" /\ status' \in {"FILE_TOO_SMALL", "KEY_GENERATION_FAIL"}
      /\ done' = NULL
      /\ UNCHANGED <<commandVars, diskVars, output, replaced, pastVars>>
  BY DEF Refuse, Fail, Run!Fail
<1>2. UNCHANGED <<argv, args, files, temps, had, leftover, before>>
  BY <1>1 DEF commandVars, diskVars, pastVars
<1>3. FilesKept'
  BY <1>2, FilesSame DEF RunsInv
<1>4. OutputMade' /\ TempWritten'
  BY <1>1 DEF OutputMade, TempWritten, Running
<1>5. NothingLeft' /\ OthersUntouched'
  BY <1>1, <1>2 DEF RunsInv, NothingLeft, OthersUntouched
<1>6. Delivered'
  <2>1. before = files /\ status' # SuccessStatus
    BY <1>1, CommandFacts DEF RunsInv, OthersUntouched
  <2>. QED
    BY <1>2, <2>1 DEF Delivered
<1>7. SameSecretOpens' /\ HeaderBlamed'
  BY <1>1 DEF SameSecretOpens, HeaderBlamed
<1>. QED
  BY <1>1, <1>3, <1>4, <1>5, <1>6, <1>7 DEF RunsInv

LEMMA MakeKeysKeeps ==
  ASSUME ArgsInv, RunsInv, MakeKeys
  PROVE  RunsInv'
<1>1. /\ pc = "run" /\ pc' = "open" /\ ~TooSmall
      /\ iv' = SaltOf(args, Target, runs) /\ key' \in KeysOf(args, iv')
      /\ output' = IF args.encrypt THEN Encrypted(Target, key', iv')
                   ELSE IF Opens(Target, key', iv') THEN Target[1].of ELSE <<>>
      /\ UNCHANGED <<commandVars, status, diskVars, done, replaced, pastVars>>
  BY DEF MakeKeys
<1>2. UNCHANGED <<argv, args, files, temps, had, leftover, before, runs, status, done, replaced>>
  BY <1>1 DEF commandVars, diskVars, pastVars
<1>3. FilesKept'
  BY <1>2, FilesSame DEF RunsInv
<1>4. Target' = Target /\ Target # <<>> /\ argv.file \in DOMAIN files
  BY <1>1, <1>2 DEF Target, TooSmall, RunsInv, OutputMade, Running
<1>5. OutputMade'
  BY <1>1, <1>2, <1>4 DEF OutputMade, HeaderGood, Running
<1>6. TempWritten' /\ NothingLeft' /\ OthersUntouched'
  BY <1>1, <1>2 DEF RunsInv, TempWritten, NothingLeft, OthersUntouched
<1>7. Delivered'
  BY <1>1 DEF Delivered
<1>8. SameSecretOpens' /\ HeaderBlamed'
  BY <1>1, <1>2 DEF RunsInv, SameSecretOpens, HeaderBlamed
<1>. QED
  BY <1>1, <1>3, <1>5, <1>6, <1>7, <1>8 DEF RunsInv

\* A file or a temporary file is written or removed, or something new was had.
LEMMA FilesNext ==
  ASSUME FilesKept, had \subseteq had', leftover => leftover',
         \A file \in had' \ had : IsSeq(file) /\ (file # <<>> => HeadOK(file[1])'),
         NEW new,
         Kept(new)' \/ files' = files,
         \A name \in DOMAIN files' :
           (name \in DOMAIN files /\ files'[name] = files[name]) \/ files'[name] = new,
         \A t \in DOMAIN temps' : IsSeq(temps'[t])
  PROVE  FilesKept'
<1>1. ASSUME NEW file \in had' PROVE IsSeq(file) /\ (file # <<>> => HeadOK(file[1])')
  <2>1. CASE file \in had
    <3>1. IsSeq(file) /\ (file # <<>> => HeadOK(file[1]))
      BY <2>1 DEF FilesKept
    <3>. QED
      BY <3>1, KeptGrows
  <2>. QED
    BY <2>1
<1>2. ASSUME NEW name \in DOMAIN files' PROVE Kept(files[name])'
  <2>1. CASE files'[name] = new /\ Kept(new)'
    BY <2>1 DEF Kept
  <2>2. CASE name \in DOMAIN files /\ files'[name] = files[name]
    <3>1. Kept(files[name])
      BY <2>2 DEF FilesKept
    <3>. QED
      BY <2>2, <3>1 DEF Kept
  <2>. QED
    BY <2>1, <2>2
<1>3. had' # {}
  BY DEF FilesKept
<1>. QED
  BY <1>1, <1>2, <1>3 DEF FilesKept

LEMMA TempsWithout ==
  ASSUME FilesKept, CleanUp
  PROVE  /\ DOMAIN temps' = DOMAIN temps \ {Temp}
         /\ \A t \in DOMAIN temps' : IsSeq(temps'[t])
  BY DEF FilesKept, CleanUp, Without

LEMMA FilesCleanedUp ==
  ASSUME FilesKept, CleanUp, UNCHANGED <<files, had, leftover>>
  PROVE  FilesKept'
<1>1. \A t \in DOMAIN temps' : IsSeq(temps'[t])
  BY TempsWithout
<1>. QED
  BY <1>1, FilesNext

LEMMA OpenTempKeeps ==
  ASSUME ArgsInv, RunsInv, OpenTemp
  PROVE  RunsInv'
<1>1. /\ pc = "open" /\ pc' = "write" /\ done' = <<>>
      /\ temps' = IF Temp \in DOMAIN temps THEN temps ELSE With(temps, Temp, <<>>)
      /\ UNCHANGED <<commandVars, output, replaced, status, files, key, iv, pastVars>>
  BY DEF OpenTemp, Run!Open
<1>2. UNCHANGED <<argv, args, files, had, leftover, before, runs>>
  BY <1>1 DEF commandVars, pastVars
<1>3. Temp' = Temp /\ Target' = Target
  BY <1>2 DEF Temp, Target
<1>4. /\ Temp \in DOMAIN temps'
      /\ \A t \in DOMAIN temps' : IsSeq(temps'[t])
      /\ ~leftover => DOMAIN temps' = {Temp} /\ temps'[Temp] = <<>>
  <2>1. CASE Temp \in DOMAIN temps
    BY <1>1, <2>1 DEF RunsInv, FilesKept, NothingLeft
  <2>2. CASE Temp \notin DOMAIN temps
    BY <1>1, <2>2, SeqEmpty DEF RunsInv, FilesKept, NothingLeft, With
  <2>. QED
    BY <2>1, <2>2
<1>5. FilesKept'
  BY <1>2, <1>4, FilesNext DEF RunsInv
<1>6. OutputMade'
  BY <1>1, <1>2, <1>3 DEF RunsInv, OutputMade, HeaderGood, Running
<1>7. TempWritten'
  <2>1. IsSeq(output)
    BY <1>1, OutputFacts DEF RunsInv
  <2>2. IsSeq(<<>>) /\ IsPrefix(<<>>, output)
    BY <2>1, SeqEmpty, SeqFacts, PrefixFacts
  <2>3. ~replaced
    BY <1>1 DEF RunsInv, TempWritten
  <2>. QED
    BY <1>1, <1>2, <1>3, <1>4, <2>2, <2>3 DEF TempWritten
<1>8. NothingLeft'
  BY <1>1, <1>2, <1>3, <1>4 DEF NothingLeft
<1>9. OthersUntouched'
  BY <1>1, <1>2 DEF RunsInv, OthersUntouched
<1>10. Delivered' /\ SameSecretOpens' /\ HeaderBlamed'
  BY <1>1 DEF RunsInv, Delivered, SameSecretOpens, HeaderBlamed
<1>. QED
  BY <1>1, <1>5, <1>6, <1>7, <1>8, <1>9, <1>10 DEF RunsInv

LEMMA WriteNextKeeps ==
  ASSUME ArgsInv, RunsInv, WriteNext
  PROVE  RunsInv'
<1>1. /\ pc = "write" /\ pc' = "write" /\ Len(done) < Len(output)
      /\ done' = Append(done, output[Len(done) + 1])
      /\ temps' = With(temps, Temp, Overlay(done', temps[Temp]))
      /\ UNCHANGED <<commandVars, output, replaced, status, files, key, iv, pastVars>>
  BY DEF WriteNext, Run!Write
<1>2. UNCHANGED <<argv, args, files, had, leftover, before, runs>>
  BY <1>1 DEF commandVars, pastVars
<1>3. Temp' = Temp /\ Target' = Target
  BY <1>2 DEF Temp, Target
<1>4. /\ IsSeq(done) /\ IsPrefix(done, output) /\ Temp \in DOMAIN temps /\ ~replaced
      /\ ~leftover => temps[Temp] = done /\ DOMAIN temps = {Temp}
  BY <1>1 DEF RunsInv, TempWritten, NothingLeft
<1>5. IsSeq(output)
  BY <1>1, OutputFacts DEF RunsInv
<1>6. IsSeq(done') /\ IsPrefix(done', output) /\ IsPrefix(done, done')
  <2>1. /\ IsSeq(done') /\ Len(done') = Len(done) + 1
        /\ done'[Len(done) + 1] = output[Len(done) + 1]
        /\ \A k \in 1 .. Len(done) : done'[k] = done[k]
    BY <1>1, <1>4, SeqAppend
  <2>2. Len(done) \in Nat /\ Len(output) \in Nat
    BY <1>4, <1>5, SeqFacts
  <2>3. \A k \in 1 .. Len(done) : done[k] = output[k]
    BY <1>4, <1>5, PrefixFacts
  <2>4. Len(done') <= Len(output) /\ Len(done) <= Len(done')
    BY <1>1, <2>1, <2>2
  <2>5. \A k \in 1 .. Len(done') : done'[k] = output[k]
    BY <2>1, <2>2, <2>3
  <2>. QED
    BY <1>4, <1>5, <2>1, <2>4, <2>5, PrefixFacts
<1>7. /\ IsSeq(Overlay(done', temps[Temp])) /\ HasTail(Overlay(done', temps[Temp]), done')
      /\ ~leftover => Overlay(done', temps[Temp]) = done'
  BY <1>4, <1>6, OverlayFacts
<1>8. /\ DOMAIN temps' = DOMAIN temps
      /\ temps'[Temp] = Overlay(done', temps[Temp])
      /\ \A t \in DOMAIN temps : t # Temp => temps'[t] = temps[t]
  BY <1>1, <1>4 DEF With
<1>9. FilesKept'
  <2>1. \A t \in DOMAIN temps' : IsSeq(temps'[t])
    BY <1>7, <1>8 DEF RunsInv, FilesKept
  <2>. QED
    BY <1>2, <2>1, FilesNext DEF RunsInv
<1>10. OutputMade'
  BY <1>1, <1>2, <1>3 DEF RunsInv, OutputMade, HeaderGood, Running
<1>11. TempWritten'
  BY <1>1, <1>2, <1>3, <1>4, <1>6, <1>7, <1>8 DEF TempWritten
<1>12. NothingLeft'
  BY <1>1, <1>2, <1>3, <1>4, <1>8 DEF NothingLeft
<1>13. OthersUntouched'
  BY <1>1, <1>2 DEF RunsInv, OthersUntouched
<1>14. Delivered' /\ SameSecretOpens' /\ HeaderBlamed'
  BY <1>1 DEF RunsInv, Delivered, SameSecretOpens, HeaderBlamed
<1>. QED
  BY <1>1, <1>9, <1>10, <1>11, <1>12, <1>13, <1>14 DEF RunsInv

\* With the recipe of the header, and the same salt, the key is that of the
\* header, and so is the IV.
LEMMA SameKey ==
  ASSUME ArgsInv, RunsInv, pc = "write", ~args.encrypt, ~HeaderGood(Target),
         Target[1].kind = "header", Target[1].key.recipe = Recipe(args), ~OfJunk(args)
  PROVE  Stretched(args) /\ NoSalt \in {Target[1].key.salt, key.salt}
<1>. DEFINE header == Target[1]
<1>1. key \in KeysOf(args, iv) /\ iv = SaltOf(args, Target, runs)
  BY DEF RunsInv, OutputMade
<1>2. KeyOK(header.key, header.iv)
  BY OutputFacts, KeptHead DEF RunsInv, HeadOK
<1>3. PICK recipe, junk, s :
        /\ header.key = [recipe |-> recipe, junk |-> junk, salt |-> s]
        /\ ~JunkRecipe(recipe) => junk = 0
        /\ s = NoSalt \/ (recipe[4] /\ s = header.iv)
  BY <1>2 DEF KeyOK
<1>4. recipe = Recipe(args) /\ header.key.salt = s
  BY <1>3
<1>5. /\ JunkRecipe(recipe) <=> OfJunk(args)
      /\ recipe[4] <=> Stretched(args)
      /\ recipe[5] = args.state_size
      /\ key.junk = 0 /\ key.recipe = recipe
      /\ IF Stretched(args) THEN key.salt \in {iv, NoSalt} ELSE key.salt = NoSalt
      /\ key = [recipe |-> key.recipe, junk |-> key.junk, salt |-> key.salt]
  BY <1>1, <1>4, KeyFacts
<1>6. iv = header.iv
  BY <1>1, <1>4, <1>5 DEF SaltOf, KeySize
<1>7. header.key # key
  BY <1>6 DEF HeaderGood, Opens
<1>8. junk = 0
  BY <1>3, <1>5
<1>9. s # key.salt
  <2>1. s = key.salt => header.key = key
    BY <1>3, <1>4, <1>5, <1>8
  <2>. QED
    BY <1>7, <2>1
<1>. QED
  BY <1>3, <1>4, <1>5, <1>6, <1>9

LEMMA RunFailsKeeps ==
  ASSUME ArgsInv, RunsInv, RunFails
  PROVE  RunsInv'
<1>1. /\ pc \in {"open", "write"} /\ pc' = "end" /\ done' = NULL /\ CleanUp
      /\ status' \in {"FILE_IO_FAIL", "HEADER_CHECK_FAIL", "MAC_CHECK_FAIL"}
      /\ status' = "HEADER_CHECK_FAIL" =>
           pc = "write" /\ ~args.encrypt /\ ~HeaderGood(Target)
      /\ UNCHANGED <<commandVars, output, replaced, files, key, iv, pastVars>>
  BY DEF RunFails, Fail, Run!Fail
<1>2. UNCHANGED <<argv, args, files, had, leftover, before, runs>>
  BY <1>1 DEF commandVars, pastVars
<1>3. FilesKept'
  BY <1>1, <1>2, FilesCleanedUp DEF RunsInv
<1>4. OutputMade' /\ TempWritten'
  BY <1>1 DEF OutputMade, TempWritten, Running
<1>5. NothingLeft'
  BY <1>1, <1>2, TempsWithout DEF RunsInv, NothingLeft
<1>6. OthersUntouched'
  BY <1>1 DEF OthersUntouched
<1>7. Delivered'
  <2>1. before = files /\ status' # SuccessStatus
    BY <1>1, CommandFacts DEF RunsInv, OthersUntouched
  <2>. QED
    BY <1>2, <2>1 DEF Delivered
<1>8. SameSecretOpens'
  <2>1. UNCHANGED <<Target, Recipe(args), OfJunk(args), Stretched(args), key>>
    BY <1>1, <1>2 DEF Target, Recipe, OfJunk, Stretched, BlockBytesOf
  <2>. QED
    BY <1>1, <2>1, SameKey DEF SameSecretOpens
<1>9. HeaderBlamed'
  BY <1>1 DEF HeaderBlamed
<1>. QED
  BY <1>1, <1>3, <1>4, <1>5, <1>6, <1>7, <1>8, <1>9 DEF RunsInv

LEMMA RenameKeeps ==
  ASSUME ArgsInv, RunsInv, Rename
  PROVE  RunsInv'
<1>1. /\ pc = "write" /\ pc' = "placed" /\ done = output
      /\ args.encrypt \/ HeaderGood(Target)
      /\ UNCHANGED <<commandVars, status, key, iv, before, runs, output>>
  BY DEF Rename, Run!Place
<1>2. UNCHANGED <<argv, args>> /\ Temp' = Temp /\ Wanted' = Wanted
  BY <1>1 DEF commandVars, Temp, Wanted, Given, LastGiven
<1>3. /\ Temp \in DOMAIN temps /\ IsSeq(done) /\ IsSeq(temps[Temp])
      /\ done # <<>> => HasTail(temps[Temp], done)
      /\ ~leftover => temps[Temp] = done /\ DOMAIN temps = {Temp}
      /\ ~replaced /\ before = files
  BY <1>1 DEF RunsInv, TempWritten, NothingLeft, FilesKept, OthersUntouched
<1>4. /\ output # <<>>
      /\ args.encrypt => HeadOK(output[1])
      /\ ~args.encrypt => Kept(output)
  BY <1>1, OutputFacts DEF RunsInv
<1>5. IsPrefix(output, temps[Temp]) /\ HasTail(temps[Temp], output)
  BY <1>1, <1>3, <1>4 DEF HasTail
<1>6. Delivered' /\ SameSecretOpens' /\ HeaderBlamed'
  BY <1>1 DEF RunsInv, Delivered, SameSecretOpens, HeaderBlamed
<1>7. CASE /\ files' = With(files, Destination, temps[Temp])
           /\ temps' = Without(temps, Temp)
           /\ had' = IF args.encrypt THEN had \cup {output} ELSE had
           /\ done' = NULL /\ replaced' = TRUE
           /\ UNCHANGED leftover
  <2>1. Destination = Wanted
    BY <1>1, DestinationWanted DEF Running
  <2>2. /\ DOMAIN files' = DOMAIN files \cup {Wanted}
        /\ files'[Wanted] = temps[Temp]
        /\ \A name \in DOMAIN files \ {Wanted} : files'[name] = files[name]
    BY <1>7, <2>1 DEF With
  <2>3. FilesKept'
    <3>1. PICK new : new = temps[Temp]
      OBVIOUS
    <3>2. PICK whole : whole = output
      OBVIOUS
    <3>3. HeadOK(whole[1])' \/ ~args.encrypt
      <4>1. HeadOK(whole[1]) \/ ~args.encrypt
        BY <1>4, <3>2
      <4>. QED
        BY <1>7, <4>1, KeptGrows
    <3>4. \A file \in had' \ had : IsSeq(file) /\ (file # <<>> => HeadOK(file[1])')
      BY <1>1, <1>3, <1>7, <3>2, <3>3
    <3>5. Kept(new)'
      <4>1. IsSeq(new) /\ HasTail(new, whole)
        BY <1>3, <1>5, <3>1, <3>2
      <4>2. ~leftover => new = whole
        BY <1>1, <1>3, <3>1, <3>2
      <4>3. CASE args.encrypt
        <5>1. whole \in had'
          BY <1>7, <3>2, <4>3
        <5>. QED
          BY <1>7, <4>1, <4>2, <5>1 DEF Kept
      <4>4. CASE ~args.encrypt
        <5>1. Kept(whole)
          BY <1>4, <3>2, <4>4
        <5>2. CASE whole \in had
          BY <1>7, <4>1, <4>2, <5>2 DEF Kept
        <5>3. CASE leftover /\ \E contents \in had : HasTail(whole, contents)
          <6>1. PICK contents \in had : HasTail(whole, contents)
            BY <5>3
          <6>2. IsSeq(whole) /\ IsSeq(contents)
            BY <5>1 DEF Kept, RunsInv, FilesKept
          <6>3. HasTail(new, contents)
            BY <4>1, <6>1, <6>2, TailOfTail
          <6>. QED
            BY <1>7, <4>1, <5>3, <6>3 DEF Kept
        <5>. QED
          BY <5>1, <5>2, <5>3 DEF Kept
      <4>. QED
        BY <4>3, <4>4
    <3>6. \A name \in DOMAIN files' :
            (name \in DOMAIN files /\ files'[name] = files[name]) \/ files'[name] = new
      BY <2>2, <3>1
    <3>7. \A t \in DOMAIN temps' : IsSeq(temps'[t])
      BY <1>7 DEF RunsInv, FilesKept, Without
    <3>8. had \subseteq had' /\ (leftover => leftover')
      BY <1>7
    <3>. QED
      BY <3>4, <3>5, <3>6, <3>7, <3>8, FilesNext DEF RunsInv
  <2>4. OutputMade'
    BY <1>1, <1>2, <1>3, <2>2, <2>3 DEF RunsInv, OutputMade, Running
  <2>5. TempWritten'
    BY <1>1, <1>7 DEF TempWritten
  <2>6. NothingLeft'
    BY <1>1, <1>3, <1>7 DEF NothingLeft, Without
  <2>7. OthersUntouched'
    <3>1. Without(files', Wanted) = Without(files, Wanted)
      BY <2>2 DEF Without
    <3>. QED
      BY <1>1, <1>2, <1>3, <1>5, <2>2, <3>1 DEF OthersUntouched
  <2>. QED
    BY <1>1, <1>6, <2>3, <2>4, <2>5, <2>6, <2>7 DEF RunsInv
<1>8. CASE /\ leftover' = TRUE
           /\ UNCHANGED <<diskVars, done, replaced, had>>
  <2>1. UNCHANGED <<files, temps, done, replaced, had>> /\ leftover'
    BY <1>8 DEF diskVars
  <2>2. FilesKept'
    BY <2>1, FilesSame DEF RunsInv
  <2>3. OutputMade'
    BY <1>1, <1>2, <1>3, <2>1 DEF RunsInv, OutputMade, Running
  <2>4. TempWritten'
    BY <1>1, <1>2, <1>3, <1>5, <2>1 DEF TempWritten
  <2>5. NothingLeft' /\ OthersUntouched'
    BY <1>1, <1>2, <1>3, <2>1 DEF NothingLeft, OthersUntouched
  <2>. QED
    BY <1>1, <1>6, <2>2, <2>3, <2>4, <2>5 DEF RunsInv
<1>. QED
  BY <1>7, <1>8 DEF Rename, Run!Place

LEMMA JoinKeeps ==
  ASSUME ArgsInv, RunsInv, JoinAndCleanUp
  PROVE  RunsInv'
<1>1. /\ pc = "placed" /\ pc' = "end"
      /\ UNCHANGED <<commandVars, output, replaced, files, key, iv, pastVars>>
      /\ status' # "HEADER_CHECK_FAIL"
      /\ \/ UNCHANGED <<temps, done>>
         \/ CleanUp /\ done' = NULL /\ status' # SuccessStatus
  BY CommandFacts DEF JoinAndCleanUp, Run!Succeed, Run!Fail
<1>2. UNCHANGED <<argv, args, files, had, leftover, before>> /\ Temp' = Temp /\ Wanted' = Wanted
  BY <1>1 DEF commandVars, pastVars, Temp, Wanted, Given, LastGiven
<1>3. IF replaced THEN done = NULL
      ELSE done = output /\ leftover /\ Temp \in DOMAIN temps /\ IsPrefix(done, temps[Temp])
  BY <1>1 DEF RunsInv, TempWritten
<1>4. IsSeq(output)
  BY <1>1 DEF RunsInv, OutputMade
<1>5. FilesKept'
  <2>1. CASE UNCHANGED temps
    BY <1>2, <2>1, FilesSame DEF RunsInv
  <2>2. CASE CleanUp
    BY <1>2, <2>2, FilesCleanedUp DEF RunsInv
  <2>. QED
    BY <1>1, <2>1, <2>2
<1>6. OutputMade' /\ OthersUntouched' /\ HeaderBlamed' /\ SameSecretOpens'
  BY <1>1 DEF OutputMade, OthersUntouched, HeaderBlamed, SameSecretOpens, Running
<1>7. TempWritten'
  <2>1. IsPrefix(output, output)
    BY <1>4, PrefixFacts, SeqFacts
  <2>2. done' # NULL => UNCHANGED <<temps, done>> /\ ~replaced
    BY <1>1, <1>3
  <2>3. done' # NULL => /\ Temp \in DOMAIN temps' /\ IsPrefix(done', temps'[Temp])
                        /\ IsPrefix(done', output)
    BY <1>3, <2>1, <2>2
  <2>. QED
    BY <1>1, <1>2, <2>3 DEF TempWritten
<1>8. NothingLeft'
  <2>1. ~leftover => DOMAIN temps = {}
    BY <1>1 DEF RunsInv, NothingLeft
  <2>2. ~leftover => DOMAIN temps' = {}
    BY <1>1, <2>1, TempsWithout DEF RunsInv
  <2>. QED
    BY <1>1, <1>2, <2>2 DEF NothingLeft
<1>9. Delivered'
  <2>1. Without(files, Wanted) = Without(before, Wanted)
    BY <1>1 DEF RunsInv, OthersUntouched
  <2>2. status' = SuccessStatus =>
          IF replaced THEN Wanted \in DOMAIN files /\ IsPrefix(output, files[Wanted])
          ELSE Temp \in DOMAIN temps' /\ IsPrefix(output, temps'[Temp])
    BY <1>1, <1>3 DEF RunsInv, OthersUntouched
  <2>. QED
    BY <1>1, <1>2, <2>1, <2>2 DEF Delivered
<1>. QED
  BY <1>1, <1>5, <1>6, <1>7, <1>8, <1>9 DEF RunsInv

\* The end of a process, be it by a signal.
LEMMA ForgottenKeeps ==
  ASSUME RunsInv, Exit \/ Kill
  PROVE  RunsInv'
<1>1. /\ pc' = "idle" /\ status' = SuccessStatus
      /\ output' = <<>> /\ done' = NULL /\ replaced' = FALSE
      /\ UNCHANGED <<files, temps, had>>
      /\ leftover' = TRUE \/ (pc = "end" /\ leftover' = leftover)
  <2>1. Forget /\ UNCHANGED <<diskVars, had>>
    BY DEF Exit, Kill
  <2>2. leftover' = TRUE \/ (pc = "end" /\ leftover' = leftover)
    BY DEF Exit, Kill
  <2>3. pc' = "idle" /\ status' = SuccessStatus
    BY <2>1 DEF Forget
  <2>4. output' = <<>> /\ done' = NULL /\ replaced' = FALSE
    BY <2>1 DEF Forget
  <2>. QED
    BY <2>1, <2>2, <2>3, <2>4 DEF diskVars
<1>2. FilesKept'
  BY <1>1, FilesSame DEF RunsInv
<1>3. NothingLeft'
  BY <1>1 DEF RunsInv, NothingLeft
<1>4. OutputMade' /\ TempWritten' /\ OthersUntouched'
  BY <1>1 DEF OutputMade, TempWritten, OthersUntouched, Running
<1>5. Delivered' /\ SameSecretOpens' /\ HeaderBlamed'
  BY <1>1, CommandFacts DEF Delivered, SameSecretOpens, HeaderBlamed
<1>. QED
  BY <1>1, <1>2, <1>3, <1>4, <1>5 DEF RunsInv

LEMMA EditKeeps ==
  ASSUME RunsInv, Edit
  PROVE  RunsInv'
<1>1. PICK name \in DOMAIN files, text \in Edits :
        files' = With(files, name, text) /\ had' = had \cup {text}
  BY DEF Edit
<1>2. /\ pc = "idle" /\ UNCHANGED <<pc, status, temps, output, done, replaced, leftover>>
  BY DEF Edit, mainVars, runVars
<1>3. IsSeq(text) /\ (text # <<>> => text[1].kind = "text")
  <2>1. IsSeq(text) /\ \A k \in DOMAIN text : text[k].kind = "text"
    BY FilesAssumption DEF IsText, IsSeq
  <2>2. text # <<>> => 1 \in DOMAIN text
    BY <2>1, SeqFacts
  <2>. QED
    BY <2>1, <2>2
<1>4. FilesKept'
  <2>1. \A file \in had' \ had : IsSeq(file) /\ (file # <<>> => HeadOK(file[1])')
    BY <1>1, <1>3 DEF HeadOK
  <2>2. Kept(text)'
    BY <1>1, <1>3 DEF Kept
  <2>3. \A n \in DOMAIN files' :
          (n \in DOMAIN files /\ files'[n] = files[n]) \/ files'[n] = text
    BY <1>1 DEF With
  <2>4. \A t \in DOMAIN temps' : IsSeq(temps'[t])
    BY <1>2 DEF RunsInv, FilesKept
  <2>5. had \subseteq had' /\ (leftover => leftover')
    BY <1>1, <1>2
  <2>. QED
    BY <2>1, <2>2, <2>3, <2>4, <2>5, FilesNext DEF RunsInv
<1>5. OutputMade' /\ TempWritten' /\ NothingLeft' /\ OthersUntouched'
  BY <1>2 DEF RunsInv, OutputMade, TempWritten, NothingLeft, OthersUntouched, Running
<1>6. Delivered' /\ SameSecretOpens' /\ HeaderBlamed'
  BY <1>2 DEF RunsInv, Delivered, SameSecretOpens, HeaderBlamed
<1>. QED
  BY <1>2, <1>4, <1>5, <1>6 DEF RunsInv

LEMMA StutterKeeps ==
  ASSUME RunsInv, UNCHANGED vars
  PROVE  RunsInv'
<1>1. UNCHANGED <<argv, args, status, pc, files, temps, key, iv, output, done, replaced,
                  before, runs, had, leftover>>
  BY DEF vars, mainVars, diskVars, runVars, pastVars
<1>2. /\ Target' = Target /\ Temp' = Temp /\ Wanted' = Wanted
      /\ UNCHANGED <<Recipe(args), OfJunk(args), Stretched(args)>>
  BY <1>1 DEF Target, Temp, Wanted, Given, LastGiven, Recipe, OfJunk, Stretched, BlockBytesOf
<1>3. FilesKept'
  BY <1>1, FilesSame DEF RunsInv
<1>4. OutputMade'
  BY <1>1, <1>2 DEF RunsInv, OutputMade, HeaderGood, Running
<1>5. TempWritten' /\ NothingLeft'
  BY <1>1, <1>2 DEF RunsInv, TempWritten, NothingLeft
<1>6. OthersUntouched' /\ HeaderBlamed'
  BY <1>1, <1>2 DEF RunsInv, OthersUntouched, HeaderBlamed
<1>7. Delivered'
  BY <1>1, <1>2 DEF RunsInv, Delivered
<1>8. SameSecretOpens'
  BY <1>1, <1>2 DEF RunsInv, SameSecretOpens
<1>. QED
  BY <1>1, <1>3, <1>4, <1>5, <1>6, <1>7, <1>8 DEF RunsInv

LEMMA RunsStep ==
  ASSUME ArgsInv, RunsInv, [Next]_vars
  PROVE  RunsInv'
  BY BeginKeeps, MainKeeps, RefuseKeeps, MakeKeysKeeps, OpenTempKeeps, WriteNextKeeps,
     RunFailsKeeps, RenameKeeps, JoinKeeps, ForgottenKeeps, EditKeeps, StutterKeeps
  DEF Next

LEMMA SessionInvariance ==
  Spec => []SessionInv
<1>1. Init => SessionInv
  BY ArgsInit, RunsInit DEF SessionInv
<1>2. SessionInv /\ [Next]_vars => SessionInv'
  BY ArgsStep, RunsStep DEF SessionInv
<1>. QED
  BY <1>1, <1>2, PTL DEF Spec

-----------------------------------------------------------------------------
(* The properties *)

\* The fields have their values in every state of every session, and what is in
\* the temporary file begins with what the run has written: asyncWrite opens it
\* without O_TRUNC.
THEOREM SessionTypes ==
  Spec => []TypeOK
<1>1. ASSUME SessionInv PROVE TypeOK
  <2>1. ArgsTyped /\ RunsInv
    BY <1>1 DEF SessionInv, ArgsInv
  <2>2. ASSUME pc = "write"
        PROVE  /\ Temp \in DOMAIN temps /\ IsPrefix(done, temps[Temp])
               /\ IsPrefix(done, output)
    <3>1. /\ Temp \in DOMAIN temps /\ IsSeq(done) /\ IsSeq(temps[Temp])
          /\ IsPrefix(done, output) /\ (done # <<>> => HasTail(temps[Temp], done))
      BY <2>1, <2>2 DEF RunsInv, TempWritten, FilesKept
    <3>2. CASE done = <<>>
      BY <3>1, <3>2, SeqEmpty, SeqFacts, PrefixFacts
    <3>3. CASE done # <<>>
      BY <3>1, <3>3 DEF HasTail
    <3>. QED
      BY <3>1, <3>2, <3>3
  <2>3. ASSUME pc = "placed", done # NULL
        PROVE  /\ Temp \in DOMAIN temps /\ IsPrefix(done, temps[Temp])
               /\ IsPrefix(done, output)
    <3>1. done = output /\ Temp \in DOMAIN temps /\ IsPrefix(done, temps[Temp]) /\ IsSeq(output)
      BY <2>1, <2>3 DEF RunsInv, TempWritten, OutputMade
    <3>. QED
      BY <3>1, PrefixFacts, SeqFacts
  <2>4. done # NULL => /\ Temp \in DOMAIN temps /\ IsPrefix(done, temps[Temp])
                       /\ IsPrefix(done, output)
    BY <2>1, <2>2, <2>3 DEF RunsInv, TempWritten
  <2>. QED
    BY <2>1, <2>4 DEF TypeOK, ArgsTyped, RunsInv, FilesKept
<1>. QED
  BY <1>1, SessionInvariance, PTL

\* However many runs there are, whatever fails in them and wherever they are
\* killed: each file holds what the user put there or the whole output of a
\* run, with at most the tail of an abandoned temporary file behind it.
THEOREM Whole ==
  Spec => []FilesWhole
<1>1. SessionInv => FilesWhole
  BY DEF SessionInv, RunsInv, FilesKept, Kept, FilesWhole
<1>. QED
  BY <1>1, SessionInvariance, PTL

\* The unlink of a failed run and the rename of a good one leave no temporary
\* file; a killed run, or one that cannot rename, does.
THEOREM Litter ==
  Spec => []NoLitter
<1>1. SessionInv => NoLitter
  BY DEF SessionInv, RunsInv, NothingLeft, NoLitter
<1>. QED
  BY <1>1, SessionInvariance, PTL

\* The output of a run that reports success is where the last -r, or the name of
\* the target, says, or in the temporary file when rename failed; no run touches
\* any other file.
THEOREM Delivers ==
  Spec => []Delivered
<1>1. SessionInv => Delivered
  BY DEF SessionInv, RunsInv
<1>. QED
  BY <1>1, SessionInvariance, PTL

\* A header is refused only with another secret or other options than those of
\* the run that made it, with a key made of memory nobody wrote, or when there
\* was no memory for scrypt in one of the two runs.
THEOREM Opening ==
  Spec => []SameSecretOpens
<1>1. SessionInv => SameSecretOpens
  BY DEF SessionInv, RunsInv
<1>. QED
  BY <1>1, SessionInvariance, PTL
=============================================================================
