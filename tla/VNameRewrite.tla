---------------------------- MODULE VNameRewrite ----------------------------
(***************************************************************************)
(* VName rewrite rules (src/go/storage/vnameutil/rewrite.go).              *)
(*                                                                         *)
(* Strings are byte sequences.  A pattern is a regular expression of the   *)
(* subset alternatives of literal bytes and '.', each optionally led by    *)
(* '^' and ended by '$'; it is matched as Go's regexp does, leftmost       *)
(* first: the earliest start, then the first alternative matching there.   *)
(* The only submatch is the whole match, group 0.  Templates are expanded  *)
(* as regexp.ExpandString does.                                            *)
(***************************************************************************)
EXTENDS Naturals, Sequences, SequencesExt

CONSTANTS
  RawRuleLists,  \* decoded JSON rule arrays: sequences of rewriteRule records
  Inputs,        \* input strings the rules are applied to
  Default        \* the VName ApplyDefault falls back to

VARIABLES
  rr,       \* the decoded rewriteRule array
  rules,    \* the Rules ParseRules returned
  arg,      \* the last input given to ApplyDefault
  result    \* what that call returned

vars == <<rr, rules, arg, result>>

\* no call made yet
NoResult == <<>>

Dollar == 36
At == 64
LBrace == 123
RBrace == 125
Caret == 94
Pipe == 124
AnyByte == 46   \* '.'

IsWordByte(b) == b \in 48..57 \cup 65..90 \cup 97..122 \cup {95}

\* The longest run of word bytes at the start of s
WordRun(s) ==
  LET i == SelectInSeq(s, LAMBDA b : ~IsWordByte(b))
  IN IF i = 0 THEN s ELSE SubSeq(s, 1, i - 1)

-----------------------------------------------------------------------------
(* Matching                                                                *)

\* The alternatives of a pattern, split at '|'
RECURSIVE Alternatives(_)
Alternatives(p) ==
  LET i == SelectInSeq(p, LAMBDA b : b = Pipe)
  IN IF i = 0 THEN <<p>>
     ELSE <<SubSeq(p, 1, i - 1)>> \o Alternatives(SubSeq(p, i + 1, Len(p)))

\* Does alternative a match input at position i, and up to which position?
AltMatchEnd(a, input, i) ==
  LET atStart == a # <<>> /\ a[1] = Caret
      a1 == IF atStart THEN Tail(a) ELSE a
      atEnd == a1 # <<>> /\ Last(a1) = Dollar
      elems == IF atEnd THEN Front(a1) ELSE a1
      j == i + Len(elems) - 1
  IN IF /\ (~atStart \/ i = 1)
        /\ j <= Len(input)
        /\ \A k \in 1..Len(elems) : elems[k] = AnyByte \/ elems[k] = input[i + k - 1]
        /\ (~atEnd \/ j = Len(input))
     THEN j ELSE -1

\* FindStringSubmatchIndex: the span of the leftmost-first match, if any
MatchSpan(p, input) ==
  LET alts == Alternatives(p)
      hits == {i \in 1..Len(input) + 1 :
                 \E n \in 1..Len(alts) : AltMatchEnd(alts[n], input, i) >= 0}
      i == CHOOSE x \in hits : \A y \in hits : x <= y
      n == SelectInSeq(alts, LAMBDA a : AltMatchEnd(a, input, i) >= 0)
  IN IF hits = {} THEN [found |-> FALSE]
     ELSE [found |-> TRUE, lo |-> i, hi |-> AltMatchEnd(alts[n], input, i)]

-----------------------------------------------------------------------------
(* Templates                                                               *)

\* regexp.Expand: "$$" is '$'; "$name" and "${name}" insert group name
\* (a decimal without leading zeros is a group number; there are no named
\* groups); any other '$' is copied.
RECURSIVE Expand(_, _, _)
Expand(t, input, span) ==
  LET d == SelectInSeq(t, LAMBDA b : b = Dollar)
      before == SubSeq(t, 1, d - 1)
      after == SubSeq(t, d + 1, Len(t))
      brace == after # <<>> /\ after[1] = LBrace
      name == WordRun(IF brace THEN Tail(after) ELSE after)
      nameEnd == Len(name) + (IF brace THEN 1 ELSE 0)
      closed == ~brace \/ (nameEnd < Len(after) /\ after[nameEnd + 1] = RBrace)
      rest == SubSeq(after, nameEnd + (IF brace THEN 2 ELSE 1), Len(after))
      group == IF name = <<48>> THEN SubSeq(input, span.lo, span.hi) ELSE <<>>
  IN CASE d = 0 -> t
       [] after # <<>> /\ after[1] = Dollar ->
            before \o <<Dollar>> \o Expand(Tail(after), input, span)
       [] name = <<>> \/ ~closed -> before \o <<Dollar>> \o Expand(after, input, span)
       [] OTHER -> before \o group \o Expand(rest, input, span)

\* fieldRE.ReplaceAllStringFunc: each leftmost "@word@" becomes "${word}"
RECURSIVE ReplaceFields(_)
ReplaceFields(s) ==
  LET starts == {i \in 1..Len(s) :
                   /\ s[i] = At
                   /\ WordRun(SubSeq(s, i + 1, Len(s))) # <<>>
                   /\ LET w == WordRun(SubSeq(s, i + 1, Len(s)))
                      IN i + Len(w) + 1 <= Len(s) /\ s[i + Len(w) + 1] = At}
      i == CHOOSE x \in starts : \A y \in starts : x <= y
      w == WordRun(SubSeq(s, i + 1, Len(s)))
  IN IF starts = {} THEN s
     ELSE SubSeq(s, 1, i - 1) \o <<Dollar, LBrace>> \o w \o <<RBrace>>
            \o ReplaceFields(SubSeq(s, i + Len(w) + 2, Len(s)))

\* fixTemplate without escaping the '$' already in the template
fixTemplateNoEscape(s) == IF s = <<>> THEN <<>> ELSE ReplaceFields(s)

\* fixTemplate: escape '$' as "$$", then turn @x@ markers into ${x}.
fixTemplate(s) ==
  IF s = <<>> THEN <<>>
  ELSE ReplaceFields(FoldLeft(LAMBDA acc, b : acc \o (IF b = Dollar THEN <<Dollar, Dollar>> ELSE <<b>>),
                              <<>>, s))

-----------------------------------------------------------------------------
(* Rules                                                                   *)

\* pattern.UnmarshalJSON: add '^' and '$' where the string lacks them.
anchor(s) ==
  LET s1 == IF s # <<>> /\ s[1] = Caret THEN s ELSE <<Caret>> \o s
  IN IF Last(s1) = Dollar THEN s1 ELSE s1 \o <<Dollar>>

\* toRule leaving the Signature template out of the VName
toRuleNoSignature(r) ==
  [pattern |-> anchor(r.pattern),
   vname   |-> [f \in DOMAIN r.vname \ {"signature"} |-> fixTemplate(r.vname[f])]]

\* toRule: a rewriteRule of raw JSON strings becomes a Rule.
toRule(r) ==
  [pattern |-> anchor(r.pattern),
   vname   |-> [f \in DOMAIN r.vname |-> fixTemplate(r.vname[f])]]

\* ParseRules over the decoded JSON array
ParseRules(data) == [n \in 1..Len(data) |-> toRule(data[n])]

\* Rule.Apply: on a match, every field template expanded with the match
RuleApply(r, input) ==
  LET m == MatchSpan(r.pattern, input)
  IN IF ~m.found THEN [ok |-> FALSE]
     ELSE [ok |-> TRUE, vname |-> [f \in DOMAIN r.vname |-> Expand(r.vname[f], input, m)]]

\* Rules.Apply: the result of the first rule that matches
RulesApply(rs, input) ==
  LET n == SelectInSeq(rs, LAMBDA r : RuleApply(r, input).ok)
  IN IF n = 0 THEN [ok |-> FALSE] ELSE RuleApply(rs[n], input)

\* Rules.ApplyDefault
ApplyDefault(rs, input, v) ==
  LET hit == RulesApply(rs, input)
  IN IF hit.ok THEN hit.vname ELSE v

-----------------------------------------------------------------------------
(* A program that parses a rule file and rewrites inputs with it           *)

Init ==
  /\ rr \in RawRuleLists
  /\ rules = ParseRules(rr)
  /\ arg = <<>>
  /\ result = NoResult

\* a call rules.ApplyDefault(in, Default)
Apply ==
  \E in \in Inputs :
    /\ arg' = in
    /\ result' = ApplyDefault(rules, in, Default)
    /\ UNCHANGED <<rr, rules>>

Next == Apply

Spec == Init /\ [][Next]_vars

-----------------------------------------------------------------------------
(* What the ParseRules comment promises                                    *)

\* The user's pattern matches the whole input: some alternative, read with
\* its own '^' and '$', spans it from first to last byte.
FullMatch(p, s) ==
  \E n \in 1..Len(Alternatives(p)) : AltMatchEnd(Alternatives(p)[n], s, 1) = Len(s)

\* A template with each "@w@" marker (leftmost first) replaced by group w:
\* "@0@" is the whole input, any other name a group the pattern lacks.
RECURSIVE Subst(_, _)
Subst(t, whole) ==
  LET w == WordRun(Tail(t))
      isMarker == t # <<>> /\ t[1] = At /\ w # <<>>
                  /\ Len(w) + 2 <= Len(t) /\ t[Len(w) + 2] = At
  IN CASE t = <<>> -> <<>>
       [] isMarker -> (IF w = <<48>> THEN whole ELSE <<>>)
                        \o Subst(SubSeq(t, Len(w) + 3, Len(t)), whole)
       [] OTHER -> <<t[1]>> \o Subst(Tail(t), whole)

Documented(raw, s) ==
  LET n == SelectInSeq(raw, LAMBDA r : FullMatch(r.pattern, s))
  IN IF n = 0 THEN Default
     ELSE [f \in DOMAIN raw[n].vname |-> Subst(raw[n].vname[f], s)]

TypeOK ==
  /\ Len(rules) = Len(rr)
  /\ \A n \in 1..Len(rules) : DOMAIN rules[n].vname = DOMAIN rr[n].vname
  /\ arg \in Inputs \cup {<<>>}
  /\ DOMAIN result \in {DOMAIN NoResult, DOMAIN Default}

\* ParseRules (rewrite.go 161-163): patterns are implicitly anchored at both
\* ends and "@n@" in a template is replaced by the n'th group.  So
\* ApplyDefault returns, for the first rule whose pattern matches the whole
\* input, its templates with "@0@" replaced by the input, and the default
\* when no pattern matches the whole input.
RewriteAsDocumented ==
  result # NoResult => result = Documented(rr, arg)

=============================================================================
