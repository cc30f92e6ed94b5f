----------------------------- MODULE MCPrograms -----------------------------
(***************************************************************************)
(* Small instances of Programs for TLC.                                    *)
(***************************************************************************)
EXTENDS Programs

Arg(option, value) == [option |-> option, value |-> value]

\* A command that exists and one that does not, a service's name, one with a
\* typing error, one that does not fit and begins like a service, and every
\* kind of misuse of an option.
UserArguments ==
  {Arg("pidfile", "qm.pid"), Arg("pidfile", NoValue), Arg("help", NoValue),
   Arg("version", NoValue), Arg("command", "stop"), Arg("command", "halt"),
   Arg("service", Spell("detect")), Arg("service", Spell("detekt")),
   Arg("service", Spell("ingestd-of-another-site")), Arg("service", <<>>),
   Arg("bogus", NoValue)}

\* Paths around a field of six characters.
PathsAroundSize == {Spell("a.pdf"), Spell("ab.pdf"), Spell("a.pdf.pdf")}

\* The characters of all names.
Letters ==
  {"a", "b", "c", "d", "e", "f", "g", "h", "i", "k", "m", "n", "o", "p", "q", "r", "s", "t", "x",
   ".", "-"}

\* Names that hold the separator, end like it or begin like it.
TrickyNames ==
  {Spell(string) : string \in
     {"", "qm", "t", "to", ".", ".t", ".to", ".to.", "to.", "a.to", "a.to.", "a.to.b",
      ".to.b", "a.t", "a.", ".to.to", "qm.to.to.parse"}}
=============================================================================
