------------------------------- MODULE JsonTree --------------------------------
(***************************************************************************)
(* JSON texts read into a tree (jsondecoder.c over multitree.c) and written from   *)
(* one (jsonencoder.c).  The decoder works in the text itself: it ends every value   *)
(* with a NUL written over what follows.  A text is a sequence of tokens:            *)
(* punctuation, " " for white space, and the strings and numbers as they stand.      *)
(* A tree is the function from the paths of its nodes to their values.               *)
(***************************************************************************)
EXTENDS Naturals, Sequences, FiniteSets, SequencesExt, TLC

CONSTANTS
  Strings,   \* string tokens, names as well as values; EmptyName may be among them
  Scalars,   \* numbers and literals
  Templates, \* the texts the edits start from
  MaxEdits,  \* bound: tokens changed, added or removed
  MaxLeaves  \* bound: the last leaf that memory may not be found for

VARIABLES
  text, edits,
  noLeaf \* the leaf of the tree that memory is not found for, by its number; 0 if memory does not fail
jsonVars == <<text, edits, noLeaf>>

NUL == "nul"
EmptyName == "empty string"
NoValue == "no value"
Indices == {ToString(n) : n \in 0 .. 9}   \* the names elements of arrays are given, as string tokens
NameTokens == Strings \union Indices
Tokens == {"{", "}", "[", "]", ":", ",", " "} \union Strings \union Scalars

-----------------------------------------------------------------------------
(* The decoder.  A parser state is [ok, json, pos, tree, noLeaf, skipped]: the text as it is by now, the   *)
(* tree so far, how many leaves on memory fails, and, as a history, whether an index was skipped for it.    *)

Peek(p) == IF p.pos <= Len(p.json) THEN p.json[p.pos] ELSE NUL
ParseError(p) == [p EXCEPT !.ok = FALSE]
Past(p) == [p EXCEPT !.pos = @ + 1]
RECURSIVE SkipWhiteSpaces(_)
SkipWhiteSpaces(p) == IF Peek(p) = " " THEN SkipWhiteSpaces(Past(p)) ELSE p

Counted(p) == IF p.noLeaf = 0 THEN p ELSE [p EXCEPT !.noLeaf = @ - 1]
AddsLeaf(p, path, fits) == IF fits /\ p.noLeaf # 1 THEN [Counted(p) EXCEPT !.tree = (path :> NoValue) @@ @] ELSE [Counted(p) EXCEPT !.ok = FALSE]
\* Mutant: a name that is there already is taken again
CreatesAnyway(p, path) == AddsLeaf(p, path, path[Len(path)] # EmptyName)
\* A child without a name, with the name of another, or without memory is refused.
createLeaf(p, path) == AddsLeaf(p, path, path[Len(path)] # EmptyName /\ path \notin DOMAIN p.tree)
MultiTree_SetValue(p, path, value) == [p EXCEPT !.tree[path] = value]

\* Mutant: the text after a value stays as it is
LeavesText(p, end) == p
\* The end of a value is written over what followed it, which is what white space after it, or what comes next, began with.
EndsValue(p, end) == IF end <= Len(p.json) THEN [p EXCEPT !.json[end] = NUL] ELSE p

ColonAt(q) == IF Peek(q) = ":" THEN Past(q) ELSE ParseError(q)
ParseColon(p) == ColonAt(SkipWhiteSpaces(p))

RECURSIVE ParseObject(_, _, _), ParseArray(_, _, _, _)
ValueAt(q, path) ==
  CASE ~q.ok -> q
    [] q.ok /\ Peek(q) \in NameTokens \union Scalars -> MultiTree_SetValue(Past(q), path, Peek(q))
    [] q.ok /\ Peek(q) = "{" -> LET Members(in) == ParseObject(in, Peek(in), path) IN Members(SkipWhiteSpaces(Past(q)))
    [] q.ok /\ Peek(q) = "[" -> LET Elements(in) == ParseArray(in, Peek(in), path, 0) IN Elements(SkipWhiteSpaces(Past(q)))
    [] OTHER -> ParseError(q)
ParseValue(p, path) == ValueAt(SkipWhiteSpaces(p), path)

ParseNameValuePair(p, path) ==
  LET Valued(colon, child) == IF colon.ok THEN ParseValue(createLeaf(colon, child), child) ELSE colon \* a refused leaf ends the text
      Named(q) == IF Peek(q) \in NameTokens THEN Valued(ParseColon(Past(q)), Append(path, Peek(q))) ELSE ParseError(q)
  IN Named(SkipWhiteSpaces(p))

\* Pairs until a brace: a comma between them is passed when there is one.
ParseObject(p, jsonChar, path) ==
  LET Goes(after, ended) == ParseObject(IF Peek(after) = "," THEN Past(ended) ELSE ended, Peek(after), path)
      Ends(pair, after) == Goes(after, EndsValue(after, pair.pos))
      Follows(pair) == IF pair.ok THEN Ends(pair, SkipWhiteSpaces(pair)) ELSE pair
  IN CASE jsonChar = "}" -> Past(p)
       [] jsonChar = NUL -> ParseError(p)
       [] OTHER -> Follows(ParseNameValuePair(p, path))
\* The elements of an array are its children "0", "1", ...; here a comma or the bracket must follow.
ParseArray(p, jsonChar, path, arrayIndex) ==
  LET Goes(after, ended) == CASE Peek(after) = "," -> ParseArray(Past(ended), ",", path, arrayIndex + 1)
                              [] Peek(after) = "]" -> SkipWhiteSpaces(Past(ended))
                              [] OTHER -> ParseError(ended)
      Ends(element, after) == Goes(after, EndsValue(after, element.pos))
      Follows(element) == IF element.ok THEN Ends(element, SkipWhiteSpaces(element)) ELSE element
      \* a refused leaf does not end the loop: the element that stands there is read again, into the next child
      Skips(leaf) == ParseArray([leaf EXCEPT !.ok = TRUE, !.skipped = TRUE], jsonChar, path, arrayIndex + 1)
      Given(leaf, child) == IF leaf.ok THEN Follows(ParseValue(leaf, child)) ELSE Skips(leaf)
      Element(child) == Given(createLeaf(p, child), child)
  IN CASE jsonChar = "]" -> SkipWhiteSpaces(Past(p))
       [] jsonChar = NUL -> ParseError(p)
       [] OTHER -> Element(Append(path, ToString(arrayIndex)))

ParseObjectOrArray(p) ==
  LET Whole(read) == IF read.ok /\ Peek(read) # NUL THEN ParseError(read) ELSE read
      Outer(q) == IF Peek(q) \in {"{", "["} THEN Whole(SkipWhiteSpaces(ParseValue(q, <<>>))) ELSE ParseError(q)
  IN Outer(SkipWhiteSpaces(p))
JSONDecoder_JSON_To_MultiTree(json, without) ==
  IF json = <<>> THEN [ok |-> FALSE, skipped |-> FALSE]
  ELSE ParseObjectOrArray([ok |-> TRUE, json |-> json, pos |-> 1, tree |-> <<>> :> NoValue, noLeaf |-> without, skipped |-> FALSE])

-----------------------------------------------------------------------------
(* The encoder.  A node with children is an object, another one its value: without either it cannot be written. *)

ChildrenOf(tree, path) == {n \in DOMAIN tree : Len(n) = Len(path) + 1 /\ IsPrefix(path, n)}
RECURSIVE EncodeTree(_, _)
EncodeTree(tree, path) ==
  LET children == SetToSeq(ChildrenOf(tree, path))
      Written(n) == IF ChildrenOf(tree, n) # {} THEN EncodeTree(tree, n) ELSE <<tree[n]>>
      Pair(i) == (IF i > 1 THEN <<",", " ">> ELSE <<>>) \o <<children[i][Len(children[i])], ":">> \o Written(children[i])
  IN <<"{">> \o FlattenSeq([i \in DOMAIN children |-> Pair(i)]) \o <<"}">>
CannotEncode(tree) == \E n \in DOMAIN tree : n # <<>> /\ tree[n] = NoValue /\ ChildrenOf(tree, n) = {}

-----------------------------------------------------------------------------
(* Texts: those of the templates, with some tokens wrong. *)

JsonInit == text \in Templates /\ edits = 0 /\ noLeaf \in 0 .. MaxLeaves
\* bound: when memory fails the text has one edit less
Edited == edits + (IF noLeaf # 0 THEN 1 ELSE 0) < MaxEdits /\ edits' = edits + 1 /\ UNCHANGED noLeaf
JsonNext ==
  \/ \E i \in DOMAIN text, t \in Tokens : Edited /\ text' = [text EXCEPT ![i] = t]
  \/ \E i \in 1 .. Len(text) + 1, t \in Tokens : Edited /\ text' = InsertAt(text, i, t)
  \/ \E i \in DOMAIN text : Edited /\ text' = RemoveAt(text, i)
JsonSpec == JsonInit /\ [][JsonNext]_jsonVars

-----------------------------------------------------------------------------
(* Properties, against the grammar of JSON. *)

WithoutToken(s, token) == SelectSeq(s, LAMBDA t : t # token)
At(path, trees) == {[n \in {path \o m : m \in DOMAIN t} |-> t[SubSeq(n, Len(path) + 1, Len(n))]] : t \in trees}
\* The trees a text without white space denotes: one at most.
RECURSIVE Denoted(_), DenotedMembers(_, _)
Denoted(s) ==
  IF Len(s) = 1 THEN IF s[1] \in NameTokens \union Scalars THEN {<<>> :> s[1]} ELSE {}
  ELSE IF Len(s) >= 2 /\ s[1] = "{" /\ s[Len(s)] = "}" THEN DenotedMembers(SubSeq(s, 2, Len(s) - 1), "names")
  ELSE IF Len(s) >= 2 /\ s[1] = "[" /\ s[Len(s)] = "]" THEN DenotedMembers(SubSeq(s, 2, Len(s) - 1), "0")
  ELSE {}
\* Members separated by commas, named by themselves or by where they stand, all names different.
DenotedMembers(s, first) ==
  IF s = <<>> THEN {<<>> :> NoValue}
  ELSE LET named == first = "names"
           start == IF named THEN 3 ELSE 1
           name == IF named THEN s[1] ELSE first
           next == IF named THEN "names" ELSE ToString((CHOOSE n \in 0 .. 9 : ToString(n) = first) + 1)
           ends == {n \in start .. Len(s) : n = Len(s) \/ (s[n + 1] = "," /\ n + 1 < Len(s))}
       IN IF named /\ (Len(s) < 3 \/ s[1] \notin NameTokens \ {EmptyName} \/ (IF Len(s) < 2 THEN TRUE ELSE s[2] # ":")) THEN {}
          ELSE UNION {{v @@ r : v \in At(<<name>>, Denoted(SubSeq(s, start, n))),
                                r \in {r \in DenotedMembers(SubSeq(s, n + 2, Len(s)), next) : <<name>> \notin DOMAIN r}} : n \in ends}
Meaning(s) == IF s = <<>> THEN {} ELSE IF WithoutToken(s, " ") = <<>> THEN {} ELSE
              IF WithoutToken(s, " ")[1] \in {"{", "["} THEN Denoted(WithoutToken(s, " ")) ELSE {}
Commas(s, at) == [i \in DOMAIN s |-> IF i \in at THEN "," ELSE s[i]]
Spaces(s) == {i \in DOMAIN s : s[i] = " "}

Rereads(again, tree) == again.ok /\ again.tree = tree
\* Memory failed for a leaf of the text that was read, and this was told.
TellsOfMemory(read) == ~read.ok /\ noLeaf # 0 /\ read.noLeaf = 0
ReadRight(read) ==
  /\ \A tree \in Meaning(text) : (read.ok /\ read.tree = tree) \/ TellsOfMemory(read) \/ read.skipped
  /\ (read.ok /\ ~read.skipped) => \E at \in SUBSET Spaces(text) : read.tree \in Meaning(Commas(text, at))
  /\ (read.ok /\ ~CannotEncode(read.tree)) =>
       Rereads(JSONDecoder_JSON_To_MultiTree(EncodeTree(read.tree, <<>>), 0), read.tree)

\* A JSON text is read as the tree it denotes, or the failure of memory is told; one with two children of a name is
\* refused; a text that is read denotes its tree, but for commas that white space may stand for; and what was read is
\* read again from what is written of it.  Excepted are arrays with an index skipped, see FailureIsTold.
DecodesJson == ReadRight(JSONDecoder_JSON_To_MultiTree(text, noLeaf))

\* What the requirement JSON_DECODER_99_038 asks (jsondecoder.c:464), and no run checks: a failure of the tree fails the
\* decoder.  The loop over an array goes on after it, and the array is read with its elements one index further.
FailureIsTold == ~JSONDecoder_JSON_To_MultiTree(text, noLeaf).skipped
=============================================================================
