----------------------------- MODULE Documents -----------------------------
(***************************************************************************)
(* JSON documents as the runtime keeps and reads them: their trees, the    *)
(* bytes they are written as, and the scanners that bound a document       *)
(* before a parser allocates anything for it (decision_trace.rs,           *)
(* model_execution_contracts.rs, forge_search_bridge.rs).                  *)
(*                                                                         *)
(* A text is a name; Spelling gives the bytes of the names whose bytes     *)
(* matter, every other name is one letter.  Bytes are classes: what a      *)
(* scanner tells apart.                                                    *)
(***************************************************************************)
EXTENDS Naturals, Sequences, FiniteSets, Folds, SequencesExt

CONSTANTS
  Keys,       \* the names of fields, in their order
  Spelling,   \* the bytes of some names
  MaxDepth, MaxNodes, MaxItems, MaxText, MaxNumber, MaxBytes

DocumentAssumption ==
  /\ {MaxDepth, MaxNodes, MaxItems, MaxText, MaxNumber, MaxBytes} \subseteq Nat \ {0}
  /\ \A t \in DOMAIN Spelling : Spelling[t] \in Seq({"letter", "quote", "backslash", "control"})

Null == [kind |-> "null"]
Flag(b) == [kind |-> "bool", is |-> b]
Number(n) == [kind |-> "number", number |-> n]
Text(t) == [kind |-> "text", text |-> t]
Array(s) == [kind |-> "array", items |-> s]
Object(f) == [kind |-> "object", fields |-> f]

IsObject(v) == v.kind = "object"
Has(v, key) == IsObject(v) /\ key \in DOMAIN v.fields
HasText(v, key) == Has(v, key) /\ v.fields[key].kind = "text"
TextOf(v, key) == v.fields[key].text

(* The steps from a value to its children, and these in order. *)
StepsOf(v) ==
  CASE v.kind = "array" -> {<<"index", i>> : i \in DOMAIN v.items}
    [] v.kind = "object" -> {<<"key", k>> : k \in DOMAIN v.fields}
    [] OTHER -> {}
Steps(v) ==
  CASE v.kind = "array" -> [i \in DOMAIN v.items |-> <<"index", i>>]
    [] v.kind = "object" ->
         LET present == SelectSeq(Keys, LAMBDA k : k \in DOMAIN v.fields)
         IN [i \in DOMAIN present |-> <<"key", present[i]>>]
    [] OTHER -> <<>>
Child(v, step) == IF step[1] = "index" THEN v.items[step[2]] ELSE v.fields[step[2]]

-----------------------------------------------------------------------------
(* The document as it is written: serde_json escapes quotes, backslashes   *)
(* and controls, and the pretty form puts white space between the parts.   *)

BytesOf(t) == IF t \in DOMAIN Spelling THEN Spelling[t] ELSE <<"letter">>
Escaped(bytes) ==
  FlattenSeq([i \in DOMAIN bytes |->
    CASE bytes[i] = "letter" -> <<"letter">>
      [] bytes[i] = "control" -> <<"backslash", "letter">>
      [] OTHER -> <<"backslash", bytes[i]>>])
Quoted(t) == <<"quote">> \o Escaped(BytesOf(t)) \o <<"quote">>
RECURSIVE Digits(_)
Digits(n) == IF n < 10 THEN <<"digit">> ELSE Digits(n \div 10) \o <<"digit">>

Joined(parts, gap) ==
  FlattenSeq([i \in DOMAIN parts |->
    (IF i = 1 THEN <<>> ELSE <<"comma">> \o gap) \o parts[i]])
RECURSIVE Written(_, _)
Written(v, gap) ==
  LET inner == [i \in DOMAIN Steps(v) |->
        LET step == Steps(v)[i]
        IN (IF step[1] = "key" THEN Quoted(step[2]) \o <<"colon">> \o gap ELSE <<>>)
             \o Written(Child(v, step), gap)]
  IN CASE v.kind = "array" -> <<"[">> \o Joined(inner, gap) \o <<"]">>
       [] v.kind = "object" -> <<"{">> \o Joined(inner, gap) \o <<"}">>
       [] v.kind = "text" -> Quoted(v.text)
       [] v.kind = "number" -> Digits(v.number)
       [] OTHER -> <<"letter", "letter">>

-----------------------------------------------------------------------------
(* The scanner of persisted decision traces. *)

Resting ==
  [error |-> "none", open |-> <<>>, within |-> "nothing", text |-> 0,
   scalar |-> "none", scalarBytes |-> 0, nodes |-> 0]
Refuse(s, error) == [s EXCEPT !.error = error]
Settled(s) == [s EXCEPT !.scalar = "none", !.scalarBytes = 0]

(* mark_container_content and bounded_node_increment. *)
Marked(s) ==
  IF s.open = <<>> THEN s ELSE [s EXCEPT !.open[Len(s.open)].content = TRUE]
Counted(s) ==
  IF s.nodes = MaxNodes THEN Refuse(s, "Bounds") ELSE [s EXCEPT !.nodes = @ + 1]

InTextUnescaped(s, b) ==    \* mutant: an escaped quote closes the text
  LET counted == [s EXCEPT !.text = @ + 1]
      next == IF b = "quote" THEN [s EXCEPT !.within = "nothing"] ELSE counted
  IN IF next.text > MaxText THEN Refuse(next, "Bounds") ELSE next

InText(s, b) ==
  LET counted == [s EXCEPT !.text = @ + 1]
      next == CASE s.within = "escape" -> [counted EXCEPT !.within = "text"]
                [] s.within = "text" /\ b = "backslash" -> [counted EXCEPT !.within = "escape"]
                [] s.within = "text" /\ b = "quote" -> [s EXCEPT !.within = "nothing"]
                [] OTHER -> counted
  IN IF next.text > MaxText THEN Refuse(next, "Bounds") ELSE next

Opens(s, b) ==
  LET counted == Counted(Settled(Marked(s)))
  IN CASE counted.error # "none" -> counted
       [] counted.error = "none" /\ b = "quote" -> [counted EXCEPT !.within = "text", !.text = 0]
       [] counted.error = "none" /\ b # "quote" /\ Len(s.open) = MaxDepth ->
            Refuse(counted, "Bounds")
       [] OTHER ->
            [counted EXCEPT !.open = Append(@, [by |-> b, commas |-> 0, content |-> FALSE])]

Closes(s, b) ==
  LET frame == Last(s.open)
      items == IF frame.content THEN frame.commas + 1 ELSE 0
  IN CASE s.open = <<>> -> Refuse(s, "Decoding")
       [] s.open # <<>> /\ frame.by # (IF b = "]" THEN "[" ELSE "{") -> Refuse(s, "Decoding")
       [] s.open # <<>> /\ items > MaxItems -> Refuse(s, "Bounds")
       [] OTHER -> [Settled(s) EXCEPT !.open = Front(@)]

Separates(s) ==
  LET last == Len(s.open)
      counted == [Settled(s) EXCEPT !.open[last].commas = @ + 1]
  IN CASE last = 0 -> Settled(s)
       [] last > 0 /\ counted.open[last].commas >= MaxItems -> Refuse(s, "Bounds")
       [] OTHER -> counted

InScalar(s, b) ==
  LET marked == Marked(s)
      begun == [Counted(marked) EXCEPT !.scalar = IF b = "digit" THEN "number" ELSE "word",
                                       !.scalarBytes = 1]
      next == CASE s.scalar = "none" -> begun
                [] s.scalar = "number" -> [marked EXCEPT !.scalarBytes = @ + 1]
                [] OTHER -> marked
  IN IF next.error = "none" /\ next.scalar = "number" /\ next.scalarBytes > MaxNumber
     THEN Refuse(next, "Bounds") ELSE next

ScanByte(s, b) ==
  CASE s.error # "none" -> s
    [] s.error = "none" /\ s.within # "nothing" -> InText(s, b)
    [] s.error = "none" /\ s.within = "nothing" /\ b \in {"quote", "[", "{"} -> Opens(s, b)
    [] s.error = "none" /\ s.within = "nothing" /\ b \in {"]", "}"} -> Closes(s, b)
    [] s.error = "none" /\ s.within = "nothing" /\ b = "comma" -> Separates(s)
    [] s.error = "none" /\ s.within = "nothing" /\ b \in {"colon", "space"} -> Settled(s)
    [] OTHER -> InScalar(s, b)

PreflightJsonBounds(bytes) ==
  LET end == FoldLeft(ScanByte, Resting, bytes)
  IN CASE Len(bytes) > MaxBytes -> "TooLarge"
       [] Len(bytes) <= MaxBytes /\ end.error # "none" -> end.error
       [] Len(bytes) <= MaxBytes /\ end.error = "none"
            /\ (end.within # "nothing" \/ end.open # <<>>) -> "Decoding"
       [] OTHER -> "none"

(* The scanners of contract bundles and of candidates only follow how deep *)
(* containers nest, and close what was never opened.                       *)
DepthByte(s, b) ==
  CASE s.deep -> s
    [] ~s.deep /\ s.within = "escape" -> [s EXCEPT !.within = "text"]
    [] ~s.deep /\ s.within = "text" ->
         [s EXCEPT !.within = CASE b = "backslash" -> "escape" [] b = "quote" -> "nothing"
                                [] OTHER -> "text"]
    [] ~s.deep /\ s.within = "nothing" /\ b = "quote" -> [s EXCEPT !.within = "text"]
    [] ~s.deep /\ s.within = "nothing" /\ b \in {"[", "{"} ->
         [s EXCEPT !.depth = @ + 1, !.deep = s.depth = MaxDepth]
    [] ~s.deep /\ s.within = "nothing" /\ b \in {"]", "}"} ->
         [s EXCEPT !.depth = IF @ = 0 THEN 0 ELSE @ - 1]
    [] OTHER -> s
PreallocationBounded(bytes) ==
  /\ Len(bytes) <= MaxBytes
  /\ ~FoldLeft(DepthByte, [within |-> "nothing", depth |-> 0, deep |-> FALSE], bytes).deep

-----------------------------------------------------------------------------
(* What the bounds mean for a tree. *)

RECURSIVE Paths(_)
Paths(v) ==
  {<<>>} \cup UNION {{<<step>> \o p : p \in Paths(Child(v, step))} : step \in StepsOf(v)}
RECURSIVE At(_, _)
At(v, path) == IF path = <<>> THEN v ELSE At(Child(v, Head(path)), Tail(path))
RECURSIVE Reaches(_, _)
Reaches(v, path) ==
  path = <<>> \/ (Head(path) \in StepsOf(v) /\ Reaches(Child(v, Head(path)), Tail(path)))

IsContainer(v) == v.kind \in {"array", "object"}
Containers(v) == {p \in Paths(v) : IsContainer(At(v, p))}
NestingOf(v) == Max({Len(p) + 1 : p \in Containers(v)} \cup {0})
FieldPaths(v) == {p \in Paths(v) : p # <<>> /\ Last(p)[1] = "key"}
TextsOf(v) ==
  {Last(p)[2] : p \in FieldPaths(v)}
    \cup {At(v, p).text : p \in {q \in Paths(v) : At(v, q).kind = "text"}}
NumbersOf(v) == {At(v, p).number : p \in {q \in Paths(v) : At(v, q).kind = "number"}}

(* A document the scanner of traces lets through, seen as a tree. *)
WithinBounds(v) ==
  /\ NestingOf(v) <= MaxDepth
  /\ Cardinality(Paths(v)) + Cardinality(FieldPaths(v)) <= MaxNodes
  /\ \A p \in Containers(v) : Cardinality(StepsOf(At(v, p))) <= MaxItems
  /\ \A t \in TextsOf(v) : Len(Escaped(BytesOf(t))) <= MaxText
  /\ \A n \in NumbersOf(v) : Len(Digits(n)) <= MaxNumber

Prefix(bytes, n) == SubSeq(bytes, 1, n)
Damaged(bytes) == {Prefix(bytes, n) : n \in 1..Len(bytes) - 1}

(* A written document is let through exactly if its tree is within the     *)
(* bounds, whatever its white space, and no part of it is taken for the    *)
(* whole; the scanners that only count the nesting agree on it.            *)
PreflightIsExactOn(v, gap) ==
  LET bytes == Written(v, gap)
  IN /\ PreflightJsonBounds(bytes) = "none" <=> Len(bytes) <= MaxBytes /\ WithinBounds(v)
     /\ IsContainer(v) => \A cut \in Damaged(bytes) : PreflightJsonBounds(cut) # "none"
     /\ PreallocationBounded(bytes) <=> Len(bytes) <= MaxBytes /\ NestingOf(v) <= MaxDepth
=============================================================================
