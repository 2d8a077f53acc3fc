------------------------------ MODULE MCSessions ------------------------------
(* A few runs on a file of three cells and on the one that -r names.  The    *)
(* first has any direction, secret and mode; the later ones those that meet  *)
(* what the first may have left.                                             *)
EXTENDS Sessions

CONSTANT Brief   \* for the run that looks for one trace only

Option1(o) == <<[o |-> o]>>
WithText(t) == <<[o |-> "p", text |-> t]>>
WithFile(f) == <<[o |-> "P", file |-> f]>>
OfSize(s) == <<[o |-> "b", size |-> s]>>
To(f) == <<[o |-> "r", file |-> f]>>

Lines(directions, secrets, modes, names) ==
  {[options |-> d \o s \o m, file |-> f] :
     d \in directions, s \in secrets, m \in modes, f \in names}

Refusals ==
  Lines({<<>>}, {Option1("h"), Option1("?") \o WithText("longest"), WithText("sixchr"),
                 WithFile("absent"), WithFile("empty"), <<>>,
                 Option1("d") \o Option1("e"), Option1("e") \o Option1("d") \o WithText("longer")},
        {<<>>}, {"target", "copy", ""})

Secrets == {WithText("longest"), WithFile("keys"), WithText("longest") \o WithFile("keys")}
Modes == {<<>>, OfSize(4), Option1("n"), Option1("l"), To("target") \o To("copy")}

MCCommands(n) ==
  CASE Brief -> Lines({<<>>}, {WithText("longest")}, {<<>>}, {"target"})
    [] n = 1 -> Refusals \union
         Lines({<<>>, Option1("d")}, Secrets \union {<<>>, WithText("longer")}, Modes, {"target"})
    [] n = 2 -> Lines({<<>>, Option1("d")}, {WithText("longest"), WithText("longer"), WithFile("keys")},
                      {<<>>, OfSize(4), Option1("n")}, {"target", "copy"})
    [] OTHER -> Lines({Option1("d"), <<>>}, {WithText("longest")}, {<<>>}, {"target", "copy"})

MCFiles == {[name \in {"target"} |-> Text(1, n)] : n \in IF Brief THEN {3} ELSE {0, 3}}

MCEdits == {Text(2, 1)}

MCPwLength(p) == CASE p = "sixchr" -> 6 [] p = "longer" -> 20 [] OTHER -> 100
MCFileLength(f) == CASE f = "empty" -> 0 [] OTHER -> 40
=============================================================================
