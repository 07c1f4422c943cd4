----------------------------- MODULE RewriteRule -----------------------------
(* The rewrite rules of the server config (rewrite_rule.cc): a pattern and a *)
(* replacement, a sequence of characters in which $n stands for what the     *)
(* n-th group of the pattern matched.                                        *)
EXTENDS Integers, Sequences, SequencesExt

Text(t) == [type |-> "TEXT", text |-> t]
Replacement(n) == [type |-> "REPLACEMENT", index |-> n]
Digits == [d \in {"0", "1", "2"} |-> CASE d = "0" -> 0 [] d = "1" -> 1 [] d = "2" -> 2]

(* std::stoi                                                                 *)
Stoi(segment) == FoldLeft(LAMBDA n, d : 10 * n + Digits[d], 0, segment)

-----------------------------------------------------------------------------
(* The loop of the constructor: one step per character.                      *)
ScanText(s, c) ==
  IF c # "$" THEN [s EXCEPT !.segment = Append(@, c)]
  ELSE [parts |-> s.parts \o (IF s.segment = <<>> THEN <<>> ELSE <<Text(s.segment)>>),
        segment |-> <<>>, status |-> "REPLACEMENT"]

(* Faulty variant: "$$" ends the second dollar's number too.                 *)
ScanReplacementOnce(s, c) ==
  IF c \in DOMAIN Digits THEN [s EXCEPT !.segment = Append(@, c)]
  ELSE [parts |-> Append(s.parts, IF s.segment = <<>> THEN Text(<<"$">>)
                                  ELSE Replacement(Stoi(s.segment))),
        segment |-> <<c>>, status |-> "TEXT"]

ScanReplacement(s, c) ==
  IF c \in DOMAIN Digits THEN [s EXCEPT !.segment = Append(@, c)]
  ELSE [parts |-> Append(s.parts, IF s.segment = <<>> THEN Text(<<"$">>)
                                  ELSE Replacement(Stoi(s.segment))),
        segment |-> IF c = "$" THEN <<>> ELSE <<c>>,
        status |-> IF c = "$" THEN "REPLACEMENT" ELSE "TEXT"]

Scan(s, c) == IF s.status = "TEXT" THEN ScanText(s, c) ELSE ScanReplacement(s, c)

(* What is left after the last character; a lone "$" there is dropped.       *)
ReplacementParts(replacement) ==
  LET s == FoldLeft(Scan, [parts |-> <<>>, segment |-> <<>>, status |-> "TEXT"], replacement)
  IN  IF s.segment = <<>> THEN s.parts
      ELSE Append(s.parts, IF s.status = "TEXT" THEN Text(s.segment)
                           ELSE Replacement(Stoi(s.segment)))

(* ValidateRewriteRule: two words, a path and not a URL, a regular           *)
(* expression pcre can compile.                                              *)
ValidateRewriteRule(rule) == rule.words = 2 /\ ~rule.absolute /\ rule.compiles

(* pcre_exec: what the groups of the pattern match, {} if it does not match. *)
PcreExec(pattern, uri) == IF uri \in DOMAIN pattern THEN {pattern[uri]} ELSE {}

(* RewriteRule::Check: group 0 is the whole match, a group the pattern does  *)
(* not have is replaced by nothing.                                          *)
Check(rule, uri) ==
  {FlattenSeq([i \in DOMAIN ReplacementParts(rule.replacement) |->
                 LET part == ReplacementParts(rule.replacement)[i] IN
                 CASE part.type = "TEXT" -> part.text
                   [] part.index < Len(groups) -> groups[part.index + 1]
                   [] OTHER -> <<>>]) : groups \in PcreExec(rule.pattern, uri)}

(* The rules ApiManagerImpl keeps, and ReWriteURL: the first that matches.   *)
RewriteRules(rewrite) == SelectSeq(rewrite, ValidateRewriteRule)
ReWriteURL(rules, uri) ==
  LET matching == {i \in DOMAIN rules : Check(rules[i], uri) # {}}
  IN  IF matching = {} THEN {}
      ELSE Check(rules[CHOOSE i \in matching : \A j \in matching : i <= j], uri)
=============================================================================
