--------------------------- MODULE MCVNameRewrite ---------------------------
(***************************************************************************)
(* Rule files for VNameRewrite: one or two rules over a few patterns, and  *)
(* every corpus template of up to four bytes over '$', '@', '0', 'a', '{'  *)
(* and '}' (so "$@0@", "${0}", "@00@", "@a@" and "$$" all occur).  The     *)
(* path template of rule n ends in a digit n, so the result tells which    *)
(* rule applied.                                                           *)
(***************************************************************************)
EXTENDS VNameRewrite

TemplateBytes == {36, 64, 48, 97, 123, 125}
Templates == UNION {[1..k -> TemplateBytes] : k \in 0..4}

\* "a.", ".b", "^b$": single alternatives
PlainPatterns == {<<97, 46>>, <<46, 98>>, <<94, 98, 36>>}
\* "a|.b": two alternatives, the first a prefix of a match of the second
AltPattern == <<97, 124, 46, 98>>

RawRule(pat, t, n) ==
  [pattern |-> pat,
   vname |-> [corpus |-> t, path |-> <<64, 48, 64, 48 + n>>,
              root |-> <<>>, signature |-> <<36, 123>>]]

RuleLists(Pats) ==
  {[n \in 1..Len(ps) |-> RawRule(ps[n], t, n)] :
     ps \in UNION {[1..k -> Pats] : k \in 1..2}, t \in Templates}

PlainRuleLists == RuleLists(PlainPatterns)

\* One rule "a|.b", with every template
AltRuleLists == {<<RawRule(AltPattern, t, 1)>> : t \in Templates}

\* "ab", "b", "ba"
MCInputs == {<<97, 98>>, <<98>>, <<98, 97>>}

MCDefault == [f \in {"corpus", "path", "root", "signature"} |-> <<"default">>]
=============================================================================
