----------------------------- MODULE Threefizer -------------------------------
(***************************************************************************)
(* main: the options one after another, the target, the password, and the  *)
(* end.  An option is a record with its letter o and, for -b, -p and -P,   *)
(* the size in words, the text or the file that follows it.  Text beyond   *)
(* its identity and its length is not modelled; argv.file is the last argument *)
(* that is no option.                                                      *)
(***************************************************************************)
EXTENDS Integers, Sequences

CONSTANTS
  Passwords,       \* what a user may type or give with -p
  PwLength(_),     \* the length of each
  MinBytes,        \* the 6 of -p and of the prompt
  KeyFiles,        \* the files -P may name that exist
  SuccessStatus    \* 0

VARIABLES
  argv,      \* [options, file]
  at,        \* the option getopt_long returns next
  args,      \* the structure arguments
  status,
  pc

mainVars == <<argv, at, args, status, pc>>

NoPassword == [text |-> "", heap |-> FALSE]

\* What the prompt yields when it could not be read: nothing anyone typed.
Unread == "unread"

initArguments ==
  [encrypt |-> TRUE, hash |-> TRUE, legacy_hash |-> FALSE, state_size |-> 8,
   hash_from_file |-> FALSE, password |-> NoPassword, key_file |-> "",
   free |-> FALSE, rename |-> ""]

Option == argv.options[at]
Parsing == pc = "parse" /\ at <= Len(argv.options)

\* The options that set a field, and those values of -p and -P that pass.
SetTo(a, o) ==
  CASE o.o = "b" -> [a EXCEPT !.state_size = o.size]
    [] o.o = "d" -> [a EXCEPT !.encrypt = FALSE]
    [] o.o = "n" -> [a EXCEPT !.hash = FALSE]
    [] o.o = "l" -> [a EXCEPT !.legacy_hash = TRUE]
    [] o.o = "r" -> [a EXCEPT !.rename = o.file]
    [] o.o = "p" -> [a EXCEPT !.password = [text |-> o.text, heap |-> FALSE]]
    [] o.o = "P" -> [a EXCEPT !.free = TRUE, !.hash_from_file = TRUE, !.key_file = o.file]
    [] OTHER -> a

\* What ends the parsing with an error.
Objection(a, o) ==
  CASE o.o = "e" /\ ~a.encrypt -> "ARG_PARSING_FAIL"
    [] o.o = "p" /\ PwLength(o.text) <= MinBytes -> "PASSWORD_TOO_SHORT"
    [] o.o = "P" /\ o.file \notin KeyFiles -> "INVALID_PASSWORD_FILE"
    [] OTHER -> SuccessStatus

\* A slip: a refused option is forgotten by the next one.
TakeOptionOn ==
  /\ Parsing /\ Option.o \in {"b", "d", "e", "n", "l", "r", "p", "P"}
  /\ args' = SetTo(args, Option)
  /\ status' = Objection(args, Option)
  /\ at' = at + 1
  /\ UNCHANGED <<argv, pc>>

TakeOption ==
  /\ Parsing /\ Option.o \in {"b", "d", "e", "n", "l", "r", "p", "P"}
  /\ LET objection == Objection(args, Option)
     IN  IF objection = SuccessStatus
         THEN args' = SetTo(args, Option) /\ at' = at + 1 /\ UNCHANGED <<status, pc>>
         ELSE status' = objection /\ pc' = "end" /\ UNCHANGED <<args, at>>
  /\ UNCHANGED argv

\* -h, -u and -V print and end.
ShowAndEnd ==
  /\ Parsing /\ Option.o \in {"h", "u", "V"}
  /\ pc' = "end"
  /\ UNCHANGED <<argv, at, args, status>>

\* An option getopt_long does not know.
UnknownOption ==
  /\ Parsing /\ Option.o = "?"
  /\ status' = "ARG_PARSING_FAIL"
  /\ at' = at + 1
  /\ UNCHANGED <<argv, args, pc>>

\* The target must be there; the password is asked for if nothing else is said.
CheckTarget(there) ==
  /\ pc = "parse" /\ at > Len(argv.options)
  /\ LET found == CASE argv.file = "" -> "TOO_FEW_ARGUMENTS"
                    [] argv.file # "" /\ ~there -> "INVALID_TARGET_FILE"
                    [] OTHER -> status
     IN  /\ status' = found
         /\ pc' = IF found # SuccessStatus THEN "end"
                  ELSE IF ~args.hash_from_file /\ args.password = NoPassword THEN "ask"
                  ELSE "run"
  /\ UNCHANGED <<argv, at, args>>

\* getPassword returns -1 when it cannot read, which becomes 65535.
EntryLength(entry) == IF entry = Unread THEN 65535 ELSE PwLength(entry)

\* One turn of the loop: two entries, which are compared.  What lies beyond the
\* buffers decides between two that could not be read.
askPassword ==
  /\ pc = "ask"
  /\ \E one, other \in Passwords \union {Unread} :
       LET long == EntryLength(one) >= MinBytes /\ EntryLength(other) >= MinBytes
           same == one = other /\ one # Unread
       IN  \/ /\ long /\ (same \/ (one = Unread /\ other = Unread))
              /\ args' = [args EXCEPT !.password = [text |-> other, heap |-> TRUE], !.free = TRUE]
              /\ pc' = "run"
           \/ /\ ~(long /\ same)
              /\ UNCHANGED <<args, pc>>
  /\ UNCHANGED <<argv, at, status>>

\* A slip: the password is freed wherever it is.
FreesAnyArgv == args.password # NoPassword /\ ~args.password.heap

\* free(password), which is NULL with -P alone.
FreesArgv == args.free /\ args.password # NoPassword /\ ~args.password.heap

MainInit ==
  /\ argv = [options |-> <<>>, file |-> ""] /\ at = 1
  /\ args = initArguments /\ status = SuccessStatus /\ pc = "idle"

\* A new process with the given arguments.
Start(v) ==
  /\ pc = "idle"
  /\ argv' = v /\ at' = 1 /\ args' = initArguments
  /\ status' = SuccessStatus /\ pc' = "parse"

\* The options, and the password where it is asked for.
MainStep == TakeOption \/ ShowAndEnd \/ UnknownOption \/ askPassword
=============================================================================
