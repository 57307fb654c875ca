------------------------------ MODULE Template ------------------------------
(***************************************************************************)
(* Templates and their data: src/server/template.c and                     *)
(* src/utils/dataset.c.                                                    *)
(*                                                                         *)
(* A template is a sequence of lines.  #if, #for, #else: and #end are      *)
(* lines, and #end and #else: belong to the block that has their           *)
(* indentation.  A data set is a tree of subsets; a loop hangs the item it *)
(* is at into the tree a second time, under a name of its own (":for:x"),  *)
(* and takes it away at its end.                                           *)
(*                                                                         *)
(* A data set is filled, rendered with and cleared as send_srender_by      *)
(* does.  The modelled templates give nested loops different variables     *)
(* and loop over names of the data set; the items of a list are either all *)
(* values or all records.                                                  *)
(***************************************************************************)
EXTENDS Integers, Sequences, SequencesExt, FiniteSets

CONSTANTS
    Settings,   \* pairs of a path, which is a sequence of names, and a value
    Order,      \* all names, in the order of their buckets in a dict_t
    Alias,      \* loop variable -> the name of its item in the data set
    Number,     \* value -> what atof makes of it, if it is a decimal number
    TextOrder,  \* what the two sides of an #if may come to, ordered as strcmp
    Templates   \* templates, as sequences of elements

VARIABLES
    heap,   \* the subsets: their children and values; Root is dataset_t.sub
    data,   \* history: the values that were set, by path
    last    \* the last render, until the data set changes

vars == <<heap, data, last>>

None  == ""     \* no value
NIL   == <<"">> \* no subset
Root  == <<>>   \* a subset is named by the path it was made for
Empty == [kids |-> <<>>, val |-> None]

\* Elements: lines of text, each a word or a name; blocks.
Word(s)  == [word |-> s, name |-> <<>>]
Name(p)  == [word |-> "", name |-> p]
Text(s)  == [t |-> "text", lines |-> s]
If(l, op, r, yes, no) ==
    [t |-> "if", left |-> l, op |-> op, right |-> r, yes |-> yes, no |-> no]
For(x, p, body) == [t |-> "for", item |-> x, list |-> p, body |-> body]

NotRendered == [tree |-> <<>>, parsed |-> <<>>, out |-> <<>>, want |-> <<>>]

Path  == {s[1] : s \in Settings}
Value == {s[2] : s \in Settings}

Entries(h) == {<<n, s>> \in (DOMAIN h) \X ToSet(Order) : s \in DOMAIN h[n].kids}

TypeOK ==
    /\ Root \in DOMAIN heap /\ NIL \notin DOMAIN heap
    /\ \A n \in DOMAIN heap :
          /\ heap[n].val \in Value \cup {None}
          /\ \A s \in DOMAIN heap[n].kids :
                heap[n].kids[s] \in DOMAIN heap \cup {NIL}
    /\ DOMAIN data \subseteq Path /\ \A p \in DOMAIN data : data[p] \in Value

Init ==
    /\ heap = [n \in {Root} |-> Empty]
    /\ data = <<>>
    /\ last = NotRendered

-----------------------------------------------------------------------------
(* dataset.c.  Subsets that nothing points at are forgotten: their memory  *)
(* is lost, and nothing else.                                              *)

Kid(h, n, s) == IF s \in DOMAIN h[n].kids THEN h[n].kids[s] ELSE NIL

GetSub(h, path) ==
    FoldLeft(LAMBDA n, s : IF n = NIL THEN NIL ELSE Kid(h, n, s), Root, path)

GetValue(h, path) ==
    IF GetSub(h, path) = NIL THEN None ELSE h[GetSub(h, path)].val

Put(f, k, v) == [j \in DOMAIN f \cup {k} |-> IF j = k THEN v ELSE f[j]]

\* children.set_sp
SetKid(h, n, s, m) == [h EXCEPT ![n].kids = Put(@, s, m)]

Pointed(h) == {Root} \cup {Kid(h, e[1], e[2]) : e \in Entries(h)}

\* new_subset as the child s of n.
NewSubset(h, n, s) == SetKid(Put(h, Append(n, s), Empty), n, s, Append(n, s))

SetValue(h, path, v) ==
    LET Step(a, s) ==
            LET h1 == IF Kid(a.h, a.n, s) = NIL THEN NewSubset(a.h, a.n, s) ELSE a.h
            IN  [h |-> h1, n |-> Kid(h1, a.n, s)]
        end == FoldLeft(Step, [h |-> h, n |-> Root], path)
    IN  [end.h EXCEPT ![end.n].val = v]

\* dict_foreach: the children that are there, in the order of their names.
Children(h, n) ==
    LET names == SelectSeq(Order, LAMBDA s : Kid(h, n, s) # NIL)
    IN  [i \in DOMAIN names |-> Kid(h, n, names[i])]

-----------------------------------------------------------------------------
(* Rendering. *)

\* Variant: the data set first, then the loop's item.
LookupOutside(h, p) ==
    LET inner == IF p[1] \in DOMAIN Alias
                 THEN GetValue(h, <<Alias[p[1]]>> \o Tail(p)) ELSE None
    IN  IF GetValue(h, p) # None THEN GetValue(h, p) ELSE inner

\* A name: the loop's item, or the data set.
Lookup(h, p) ==
    LET inner == IF p[1] \in DOMAIN Alias
                 THEN GetValue(h, <<Alias[p[1]]>> \o Tail(p)) ELSE None
    IN  IF inner # None THEN inner ELSE GetValue(h, p)

\* A line of render_normal_elem; a name without a value stays as it is.
RenderLine(h, line) ==
    IF line.name # <<>> /\ Lookup(h, line.name) # None
    THEN Word(Lookup(h, line.name))
    ELSE line

\* strcmp, by its sign.
Strcmp(l, r) == SelectInSeq(TextOrder, LAMBDA w : w = l)
              - SelectInSeq(TextOrder, LAMBDA w : w = r)

\* What an operator says of left minus right.
Holds(op, d) ==
    \/ op = "="  /\ d = 0
    \/ op = "!=" /\ d # 0
    \/ op = ">"  /\ d > 0
    \/ op = "<"  /\ d < 0
    \/ op = ">=" /\ d >= 0
    \/ op = "<=" /\ d <= 0

\* if_elem_true: as numbers if both sides are, as text otherwise.
IfTrue(h, e) ==
    LET l == RenderLine(h, e.left)
        r == RenderLine(h, e.right)
    IN  Holds(e.op, IF {l.word, r.word} \subseteq DOMAIN Number
                    THEN Number[l.word] - Number[r.word]
                    ELSE Strcmp(l, r))

\* Variant: the item stays in the data set after the loop.
LeavesItem(h, x) == h

\* The end of render_for_elem.
TakesItemAway(h, x) == SetKid(h, Root, Alias[x], NIL)

\* _render_each_item: a value is copied, a record is pointed at.
SetItem(h, x, n) ==
    IF h[n].val # None THEN SetValue(h, <<Alias[x]>>, h[n].val)
    ELSE SetKid(h, Root, Alias[x], n)

RECURSIVE RenderAll(_, _)

\* render_for_elem; the list is looked up in the data set.
RenderFor(h, e) ==
    LET list == GetSub(h, e.list)
        Each(a, n) ==
            LET r == RenderAll(SetItem(a.h, e.item, n), e.body)
            IN  [h |-> r.h, out |-> a.out \o r.out]
        end == FoldLeft(Each, [h |-> h, out |-> <<>>],
                        IF list = NIL THEN <<>> ELSE Children(h, list))
    IN  [h |-> TakesItemAway(end.h, e.item), out |-> end.out]

RenderElem(h, e) ==
    CASE e.t = "text" ->
            [h |-> h, out |-> [i \in DOMAIN e.lines |-> RenderLine(h, e.lines[i])]]
      [] e.t = "if"   -> RenderAll(h, IF IfTrue(h, e) THEN e.yes ELSE e.no)
      [] e.t = "for"  -> RenderFor(h, e)

\* render_normal_elem: the children in turn.
RenderAll(h, elems) ==
    FoldLeft(LAMBDA a, e : LET r == RenderElem(a.h, e)
                           IN  [h |-> r.h, out |-> a.out \o r.out],
             [h |-> h, out |-> <<>>], elems)

-----------------------------------------------------------------------------
(* Parsing. *)

\* The template an author writes: the inside of a block is indented.
Line(ind, k, e) == [ind |-> ind, k |-> k, e |-> e]

RECURSIVE Lines(_, _)
Lines(elems, ind) ==
    LET Write(e) ==
            CASE e.t = "text" -> [i \in DOMAIN e.lines |-> Line(ind, "text", e.lines[i])]
              [] e.t = "if" -> <<Line(ind, "if", e)>> \o Lines(e.yes, ind + 1)
                    \o (IF e.no = <<>> THEN <<>>
                        ELSE <<Line(ind, "else", e)>> \o Lines(e.no, ind + 1))
                    \o <<Line(ind, "end", e)>>
              [] e.t = "for" -> <<Line(ind, "for", e)>> \o Lines(e.body, ind + 1)
                    \o <<Line(ind, "end", e)>>
    IN  FlattenSeq([i \in DOMAIN elems |-> Write(elems[i])])

\* Variant: the indentation is not compared.
FirstAtAny(lines, k, ind) ==
    SelectInSeq(lines, LAMBDA l : l.k = k)

\* holy_strnstr of "\n<indent>#end\n" or "\n<indent>#else:"; 0: none.
FirstAt(lines, k, ind) ==
    SelectInSeq(lines, LAMBDA l : l.k = k /\ l.ind = ind)

\* One text element for lines that follow each other.
AddText(line, elems) ==
    IF elems # <<>> /\ elems[1].t = "text"
    THEN <<Text(<<line>> \o elems[1].lines)>> \o Tail(elems)
    ELSE <<Text(<<line>>)>> \o elems

RECURSIVE Parse(_)

\* parse_if_elem: inside are the lines between #if and #end.
ParseIf(line, inside) ==
    LET else == FirstAt(inside, "else", line.ind)
    IN  If(line.e.left, line.e.op, line.e.right,
           Parse(IF else = 0 THEN inside ELSE SubSeq(inside, 1, else - 1)),
           IF else = 0 THEN <<>> ELSE Parse(SubSeq(inside, else + 1, Len(inside))))

\* parse_for_elem
ParseFor(line, inside) == For(line.e.item, line.e.list, Parse(inside))

\* parse_normal_elem: a block where one starts and has an end, text elsewhere.
Parse(lines) ==
    IF lines = <<>> THEN <<>>
    ELSE LET line == lines[1]
             rest == Tail(lines)
             end  == FirstAt(rest, "end", line.ind)
         IN  IF line.k \in {"if", "for"} /\ end # 0
             THEN <<IF line.k = "if" THEN ParseIf(line, SubSeq(rest, 1, end - 1))
                                     ELSE ParseFor(line, SubSeq(rest, 1, end - 1))>>
                  \o Parse(SubSeq(rest, end + 1, Len(rest)))
             ELSE AddText(IF line.k = "text" THEN line.e ELSE Word("#"), Parse(rest))

-----------------------------------------------------------------------------
(* What a template means: the text for the values by path, with the path   *)
(* of the item each loop variable stands for.                              *)

Items(p) ==
    LET At(s) == \E q \in DOMAIN data : IsPrefix(Append(p, s), q)
    IN  SelectSeq(Order, At)

LineMeans(env, line) ==
    LET p == line.name
        q == IF p # <<>> /\ p[1] \in DOMAIN env THEN env[p[1]] \o Tail(p) ELSE p
    IN  IF q \in DOMAIN data THEN Word(data[q])
        ELSE IF p \in DOMAIN data THEN Word(data[p]) ELSE line

\* The operators under which two sides compare: two numbers by their values,
\* anything else letter by letter.
Relations(l, r) ==
    LET numbers == l.word \in DOMAIN Number /\ r.word \in DOMAIN Number
        less(a, b) ==
            IF numbers THEN Number[a.word] < Number[b.word]
            ELSE \E i, j \in DOMAIN TextOrder :
                     i < j /\ TextOrder[i] = a /\ TextOrder[j] = b
    IN  IF less(l, r) THEN {"!=", "<", "<="}
        ELSE IF less(r, l) THEN {"!=", ">", ">="} ELSE {"=", ">=", "<="}

RECURSIVE Means(_, _)
Means(elems, env) ==
    LET One(e) ==
            CASE e.t = "text" -> [i \in DOMAIN e.lines |-> LineMeans(env, e.lines[i])]
              [] e.t = "if" ->
                    IF e.op \in Relations(LineMeans(env, e.left), LineMeans(env, e.right))
                    THEN Means(e.yes, env) ELSE Means(e.no, env)
              [] e.t = "for" ->
                    FlattenSeq([i \in DOMAIN Items(e.list) |->
                        Means(e.body, Put(env, e.item, Append(e.list, Items(e.list)[i])))])
    IN  FlattenSeq([i \in DOMAIN elems |-> One(elems[i])])

-----------------------------------------------------------------------------
(* Actions. *)

\* A value where there are no others below or above, and items of one kind.
Settable(p) ==
    \A q \in DOMAIN data :
        /\ q # p => ~IsPrefix(p, q) /\ ~IsPrefix(q, p)
        /\ p[1] = q[1] => Len(p) = Len(q)

\* set_value, by set_batch.
Set(p, v) ==
    /\ last = NotRendered /\ Settable(p)
    /\ heap' = SetValue(heap, p, v)
    /\ data' = Put(data, p, v)
    /\ UNCHANGED last

\* holy_srender_by: the template is parsed and rendered.
Render(tree) ==
    LET parsed == Parse(Lines(tree, 0))
        r      == RenderAll(heap, parsed)
        keep   == Pointed(r.h) \ {NIL}
    IN  /\ last = NotRendered
        /\ heap' = [n \in keep |-> r.h[n]]
        /\ last' = [tree |-> tree, parsed |-> parsed, out |-> r.out,
                    want |-> Means(tree, <<>>)]
        /\ UNCHANGED data

\* The result is used; the data set may be rendered with again.
Sent ==
    /\ last # NotRendered
    /\ last' = NotRendered
    /\ UNCHANGED <<heap, data>>

\* Variant: the data set is used again.  clear_sub_values frees the children
\* and leaves them in a dict_t that holy_dict_init finds initialised.
ClearAndReuse ==
    /\ last = NotRendered
    /\ heap' = [n \in {Root} |-> heap[Root]]
    /\ data' = <<>>
    /\ UNCHANGED last

\* clear_data_set, after which every caller throws the data set away, and the new
\* one of the next answer.  A cleared data set could not be used again: its freed
\* children stay linked, because holy_dict_init leaves an initialised dict alone
\* (dict.c:352).
Clear ==
    /\ last = NotRendered
    /\ heap' = [n \in {Root} |-> Empty]
    /\ data' = <<>>
    /\ UNCHANGED last

Next ==
    \/ \E s \in Settings : Set(s[1], s[2])
    \/ \E tree \in Templates : Render(tree)
    \/ Sent \/ Clear

Spec == Init /\ [][Next]_vars

-----------------------------------------------------------------------------
(* Properties. *)

\* Blocks inside blocks, next to each other and with #else: are read as they
\* were written, although #end and #else: are found by their indentation alone
\* (template.c:297-526).
ParsesBack == last.parsed = last.tree

\* A template renders to what it means, values and records in loops, names
\* shadowed by loop variables, conditions and loops in loops
\* (template.c:103-267, dataset.c:15-80, 167-196).
RendersMeaning == last.out = last.want

\* After a render every subset hangs in the tree once, so that clearing the data
\* set frees it once, and every value is what was set (template.c:167-199,
\* dataset.c:112-128).
DataKept ==
    /\ LET entries == {e \in Entries(heap) : Kid(heap, e[1], e[2]) # NIL}
           kids    == {Kid(heap, e[1], e[2]) : e \in entries}
       IN  /\ kids = DOMAIN heap \ {Root}
           /\ Cardinality(kids) = Cardinality(entries)
    /\ \A p \in Path :
          GetValue(heap, p) = IF p \in DOMAIN data THEN data[p] ELSE None

=============================================================================
