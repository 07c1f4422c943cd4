----------------------------- MODULE PathMatcher -----------------------------
(* HTTP templates (http_template.cc) and the trie that maps the path of a    *)
(* request to a method (path_matcher.h, path_matcher_node.cc).  A template   *)
(* is a sequence of tokens, a path a sequence of segments with, maybe, a     *)
(* verb after its last colon.                                                *)
EXTENDS Integers, Sequences, SequencesExt

NoVerb == ""

-----------------------------------------------------------------------------
(* The recursive descent of Parser as one step per token, a token being a    *)
(* sign of the grammar or a whole literal; want tells what it consumes next. *)
Parser == [want |-> "slash", in_variable |-> FALSE, segments |-> <<>>, verb |-> NoVerb,
           variables |-> <<>>]
Wants(p, w) == [p EXCEPT !.want = w]
Bad(p) == Wants(p, "nothing")

StartVariable(p) ==
  [p EXCEPT !.want = "field", !.in_variable = TRUE,
            !.variables = Append(@, [field_path |-> <<>>, start_segment |-> Len(p.segments),
                                     end_segment |-> 0, has_wildcard_path |-> FALSE])]

AddFieldIdentifier(p, id) ==
  [p EXCEPT !.want = "field end", !.variables[Len(p.variables)].field_path = Append(@, id)]

EndVariable(p) ==
  [p EXCEPT !.want = "segment end", !.in_variable = FALSE,
            !.variables[Len(p.variables)].end_segment = Len(p.segments)]

PushSegment(p, s) ==
  LET q == [p EXCEPT !.want = "segment end", !.segments = Append(@, s)] IN
  IF s = "**" /\ p.in_variable
  THEN [q EXCEPT !.variables[Len(p.variables)].has_wildcard_path = TRUE] ELSE q

ParseSegment(p, t) ==
  CASE t \in {"/", ":", "}"} -> Bad(p)
    [] t = "{" -> IF p.in_variable THEN Bad(p) ELSE StartVariable(p)
    [] OTHER -> PushSegment(p, t)

ParseFieldPath(p, t) ==
  CASE t = "." -> Wants(p, "field")
    [] t = "=" -> Wants(p, "segment")
    [] t = "}" -> EndVariable(PushSegment(p, "*"))
    [] OTHER -> Bad(p)

ParseSegments(p, t) ==
  CASE t = "/" -> Wants(p, "segment")
    [] t = "}" /\ p.in_variable -> EndVariable(p)
    [] t = ":" /\ ~p.in_variable -> Wants(p, "verb")
    [] OTHER -> Bad(p)

ParseToken(p, t) ==
  CASE p.want = "slash" /\ t = "/" -> Wants(p, "segment")
    [] p.want = "segment" -> ParseSegment(p, t)
    [] p.want = "segment end" -> ParseSegments(p, t)
    [] p.want = "field" /\ t \notin {".", "}", "="} -> AddFieldIdentifier(p, t)
    [] p.want = "field end" -> ParseFieldPath(p, t)
    [] p.want = "verb" /\ t \notin {"/", ":", "}"} -> [Wants(p, "end") EXCEPT !.verb = t]
    [] OTHER -> Bad(p)

Parsed(p) == p.want \in {"segment end", "end"} /\ ~p.in_variable

(* Only constant segments may follow **.                                     *)
ValidateParts(p) ==
  \A i, j \in 1..Len(p.segments) :
    i < j /\ p.segments[i] = "**" => p.segments[j] \notin {"*", "**"}

(* Faulty variant: the segment of the verb is forgotten.                     *)
EndSegmentWithoutVerb(p, v) ==
  IF ~v.has_wildcard_path THEN v.end_segment ELSE v.end_segment - Len(p.segments) - 1

(* PostProcessVariables: with ** in it, a variable ends relative to the end. *)
EndSegment(p, v) ==
  IF ~v.has_wildcard_path THEN v.end_segment
  ELSE v.end_segment - Len(p.segments) - 1 - (IF p.verb = NoVerb THEN 0 ELSE 1)

ParseTemplate(tokens) == FoldLeft(ParseToken, Parser, tokens)

(* HttpTemplate::Parse; {} stands for nullptr.                               *)
HttpTemplateParse(tokens) ==
  {[segments |-> p.segments, verb |-> p.verb,
    variables |-> [i \in 1..Len(p.variables) |->
                     [p.variables[i] EXCEPT !.end_segment = EndSegment(p, p.variables[i])]]] :
     p \in {q \in {ParseTemplate(tokens)} : Parsed(q) /\ ValidateParts(q)}}

-----------------------------------------------------------------------------
(* The trie: nodes are named by the keys that lead to them; results gives    *)
(* what is registered at a node for an HTTP method.                          *)
EmptyMatcher == [nodes |-> {<<>>}, results |-> {}, custom_verbs |-> {}]

(* TransformHttpTemplate: the verb is one more literal.                      *)
TransformHttpTemplate(ht) ==
  ht.segments \o (IF ht.verb = NoVerb THEN <<>> ELSE <<ht.verb>>)

Registered(matcher, node, http_method) ==
  \E x \in matcher.results : x.node = node /\ x.http_method = http_method

(* InsertTemplate                                                            *)
Insert(matcher, http_method, ht, data) ==
  LET path == TransformHttpTemplate(ht) IN
  [nodes |-> matcher.nodes \union {SubSeq(path, 1, n) : n \in 1..Len(path)},
   results |-> matcher.results \union
     {[node |-> path, http_method |-> http_method, data |-> data, ht |-> ht]},
   custom_verbs |-> matcher.custom_verbs \union ({ht.verb} \ {NoVerb})]

(* PathMatcherBuilder::Register: {} if the template is not valid or is       *)
(* registered for the HTTP method already.                                   *)
Register(matcher, http_method, tokens, data) ==
  {Insert(matcher, http_method, ht, data) :
     ht \in {h \in HttpTemplateParse(tokens) :
               ~Registered(matcher, TransformHttpTemplate(h), http_method)}}

(* GetResultForHttpMethod: the method itself before the wildcard method.     *)
GetResultForHttpMethod(matcher, node, http_method) ==
  LET At(m) == {x \in matcher.results : x.node = node /\ x.http_method = m}
  IN  IF At(http_method) # {} THEN At(http_method) ELSE At("*")

(* Faulty variant: ** is tried before *.                                     *)
ChildKeysSwapped == <<"**", "*">>

(* The keys of the children to try when no literal matches.                  *)
ChildKeys == <<"*", "**">>

(* LookupPath and LookupPathFromChild: depth first from the root; the        *)
(* literal child first, then, a ** node takes the part itself, another node  *)
(* tries its other children.                                                 *)
FirstHit(hits) ==
  FoldLeft(LAMBDA found, hit : IF found # {} THEN found ELSE hit, {}, hits)
LookupPath(matcher, parts, http_method) ==
  LET look[q \in matcher.nodes \X (1..(Len(parts) + 1))] ==
        LET node == q[1]
            i == q[2]
            next == <<Append(node, parts[i])>> \o
                    (IF node # <<>> /\ Last(node) = "**" THEN <<node>>
                     ELSE [k \in DOMAIN ChildKeys |-> Append(node, ChildKeys[k])])
        IN  IF i > Len(parts)
            THEN FirstHit([n \in 1..2 |-> GetResultForHttpMethod(matcher, <<node, Append(node, "**")>>[n], http_method)])
            ELSE FirstHit([k \in DOMAIN next |->
                             IF next[k] \in matcher.nodes THEN look[<<next[k], i + 1>>] ELSE {}])
  IN  look[<< <<>>, 1 >>]

(* ExtractRequestParts: a known verb becomes a segment of its own, another   *)
(* stays with the last one; empty segments at the end are dropped.           *)
ExtractRequestParts(path, custom_verbs) ==
  LET n == Len(path.segments)
      whole == IF path.verb = NoVerb THEN path.segments
               ELSE IF path.verb \in custom_verbs THEN Append(path.segments, path.verb)
               ELSE [path.segments EXCEPT ![n] = @ \o ":" \o path.verb]
      kept == {i \in 1..Len(whole) : whole[i] # ""}
      last == IF kept = {} THEN 0 ELSE CHOOSE i \in kept : \A j \in kept : j <= i
  IN  SubSeq(whole, 1, last)

(* UrlUnescapeString, on the segments and values escapes gives the meaning   *)
(* of: a reserved character stays escaped unless the caller asks for it.     *)
UrlUnescapeString(escapes, part, unescape_reserved_chars) ==
  LET known == {e \in escapes : e.part = part /\ (e.reserved => unescape_reserved_chars)}
  IN  IF known = {} THEN part ELSE (CHOOSE e \in known : TRUE).plain

(* ExtractBindingsFromPath: the value is the parts to be joined with "/";    *)
(* where there may be several, escaped separators stay escaped.              *)
ExtractBindingsFromPath(escapes, variables, parts, keep_binding_escaped) ==
  [i \in 1..Len(variables) |->
     LET v == variables[i]
         end == IF v.end_segment >= 0 THEN v.end_segment ELSE Len(parts) + v.end_segment + 1
         is_multipart == end - v.start_segment > 1 \/ v.end_segment < 0
     IN  [field_path |-> v.field_path,
          value |-> [n \in 1..(end - v.start_segment) |->
                       IF keep_binding_escaped THEN parts[v.start_segment + n]
                       ELSE UrlUnescapeString(escapes, parts[v.start_segment + n], ~is_multipart)]]]

(* ExtractBindingsFromQueryParameters skips what has no name or no "=" and   *)
(* the system parameters.                                                    *)
ExtractBindingsFromQueryParameters(escapes, query_params, system_params, keep_binding_escaped) ==
  LET bound == SelectSeq(query_params, LAMBDA q : q.name # "" /\ q.equals
                                                  /\ q.name \notin system_params)
  IN  [i \in 1..Len(bound) |->
         [field_path |-> <<bound[i].name>>,
          value |-> <<IF keep_binding_escaped THEN bound[i].value
                      ELSE UrlUnescapeString(escapes, bound[i].value, TRUE)>>]]

(* PathMatcher::Lookup of the method; {} stands for nullptr.                 *)
Lookup(matcher, http_method, path) ==
  LookupPath(matcher, ExtractRequestParts(path, matcher.custom_verbs), http_method)
=============================================================================
