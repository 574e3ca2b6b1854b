---------------------------- MODULE TableCompaction ----------------------------
(* The rendering of an array of objects as a table, which SmartCrusher tries     *)
(* before it leaves anything out (smart_crusher/compaction/).                    *)
(*                                                                               *)
(* A JSON value is a scalar [tag, text], an object [fields], an array [items], or *)
(* a string that holds JSON [holds].  A key is a sequence of parts, as the name  *)
(* of a flattened column is: <<"a.b">> and the column of b in a are the same.    *)
EXTENDS Integers, Sequences, FiniteSets, SequencesExt

CONSTANTS
    MaxInner,    \* keys of an object that is flattened, at most (6 in the code)
    MinBuckets, MaxBuckets,   \* 2 and 8
    LongTexts    \* the strings longer than opaque_min_bytes

Empty == 0       \* the text of the empty string
Null == [tag |-> "null", text |-> Empty]

IsScalar(v) == "tag" \in DOMAIN v
IsObject(v) == "fields" \in DOMAIN v
IsArray(v) == "items" \in DOMAIN v
Keys(object) == [i \in DOMAIN object.fields |-> object.fields[i][1]]
Has(object, key) == key \in ToSet(Keys(object))
At(object, key) == object.fields[CHOOSE i \in DOMAIN object.fields : object.fields[i][1] = key][2]

\* A string that holds an object or an array is read as what it holds.
Held(v) == IF "holds" \in DOMAIN v THEN v.holds ELSE v

TypeTagFor(v) ==
    CASE IsScalar(v) -> v.tag
      [] "holds" \in DOMAIN v -> "string"
      [] OTHER -> "json"

\* what a cell holds: nothing, a value, a table of its own, a marker for a long string
Missing == [missing |-> TRUE]
Value(v) == [value |-> v]
IsValue(cell) == "value" \in DOMAIN cell

-------------------------------------------------------------------------------
(* The schema                                                                    *)

KeyFreqs(items) ==
    [key \in UNION {ToSet(Keys(items[i])) : i \in DOMAIN items} |->
        Cardinality({i \in DOMAIN items : Has(items[i], key)})]

Alphabetical(key) == 10 * key[1] + (IF Len(key) = 1 THEN 0 ELSE key[2])
OrderedKeys(freqs) ==
    LET Before(j, k) == \/ freqs[j] > freqs[k]
                        \/ freqs[j] = freqs[k] /\ Alphabetical(j) < Alphabetical(k)
    IN  [n \in 1..Cardinality(DOMAIN freqs) |->
            CHOOSE k \in DOMAIN freqs : Cardinality({j \in DOMAIN freqs : Before(j, k)}) = n - 1]

TagOf(tags) == IF tags = {} THEN "string" ELSE IF Cardinality(tags) > 1 THEN "json" ELSE CHOOSE t \in tags : TRUE

InferTypeTag(items, key) ==
    TagOf({TypeTagFor(At(items[i], key)) : i \in {j \in DOMAIN items : Has(items[j], key)}} \ {"null"})

FieldSpec(items, key) ==
    [name |-> key, tag |-> InferTypeTag(items, key),
     nullable |-> \E i \in DOMAIN items : ~Has(items[i], key) \/ At(items[i], key) = Null]

-------------------------------------------------------------------------------
(* Objects that are alike in every row become columns                            *)

\* Mutant: the first row that has an object speaks for the others.
UniformObjectKeysFirst(table, i) ==
    LET cells == {r \in DOMAIN table.rows : table.rows[r][i] # Missing}
    IN  IF /\ Len(table.fields[i].name) = 1 /\ cells # {}
           /\ \A r \in cells : IsValue(table.rows[r][i]) /\ IsObject(table.rows[r][i].value)
        THEN Keys(table.rows[CHOOSE r \in cells : \A q \in cells : r <= q][i].value)
        ELSE <<>>

\* the keys of the objects of column i, in their order, if all rows agree on them
UniformObjectKeys(table, i) ==
    LET cells == {r \in DOMAIN table.rows : table.rows[r][i] # Missing}
        found == {Keys(table.rows[r][i].value) : r \in cells}
    IN  IF /\ Len(table.fields[i].name) = 1 /\ cells # {}
           /\ \A r \in cells : IsValue(table.rows[r][i]) /\ IsObject(table.rows[r][i].value)
           /\ Cardinality(found) = 1
        THEN CHOOSE k \in found : TRUE
        ELSE <<>>

Spliced(s, i, inner) == SubSeq(s, 1, i - 1) \o inner \o SubSeq(s, i + 1, Len(s))

Inner(cell, key) ==
    IF cell = Missing \/ ~Has(cell.value, key) THEN Missing ELSE Value(At(cell.value, key))

InferFromCells(name, cells) ==
    [name |-> name,
     tag |-> TagOf({TypeTagFor(c.value) : c \in cells \ {Missing}} \ {"null"}),
     nullable |-> cells \cap {Missing, Value(Null)} # {}]

\* Mutant: the columns take the place of the object, but keep its tag and say that
\* nothing is absent, although the object itself may be.
FlattenAtUnrefined(table, i, inner) ==
    [fields |-> Spliced(table.fields, i, [k \in DOMAIN inner |->
                    [name |-> table.fields[i].name \o inner[k], tag |-> "string", nullable |-> FALSE]]),
     rows |-> [r \in DOMAIN table.rows |->
                    Spliced(table.rows[r], i, [k \in DOMAIN inner |-> Inner(table.rows[r][i], inner[k])])]]

FlattenAt(table, i, inner) ==
    LET Cells(key) == {Inner(table.rows[r][i], key) : r \in DOMAIN table.rows}
    IN  [fields |-> Spliced(table.fields, i, [k \in DOMAIN inner |->
                        InferFromCells(table.fields[i].name \o inner[k], Cells(inner[k]))]),
         rows |-> [r \in DOMAIN table.rows |->
                        Spliced(table.rows[r], i, [k \in DOMAIN inner |-> Inner(table.rows[r][i], inner[k])])]]

FlattenStep(acc) ==
    LET inner == UniformObjectKeys(acc.table, acc.at)
    IN  IF inner # <<>> /\ Len(inner) <= MaxInner
        THEN [table |-> FlattenAt(acc.table, acc.at, inner), at |-> acc.at + Len(inner)]
        ELSE [acc EXCEPT !.at = @ + 1]

FlattenUniformNested(table) ==
    FoldLeft(LAMBDA acc, field : FlattenStep(acc), [table |-> table, at |-> 1], table.fields).table

-------------------------------------------------------------------------------
(* Arrays of several kinds of objects                                            *)

IsText(v) == "holds" \in DOMAIN v \/ (IsScalar(v) /\ v.tag = "string")

Discriminators(items, freqs) ==
    {key \in DOMAIN freqs :
        /\ freqs[key] = Len(items)
        /\ LET values == {At(items[i], key) : i \in DOMAIN items}
               n == Cardinality(values)
           IN  (\A v \in values : IsText(v)) /\ n \in MinBuckets..MaxBuckets /\ 10 * n <= 7 * Len(items)}

\* the one of most kinds; of several, the first
DetectDiscriminator(items, found) ==
    LET Kinds(key) == Cardinality({At(items[i], key) : i \in DOMAIN items})
        most == {k \in found : \A j \in found : Kinds(j) <= Kinds(k)}
    IN  CHOOSE k \in most : \A j \in most : Alphabetical(k) <= Alphabetical(j)

Heterogeneous(items, freqs) ==
    LET threshold == (4 * Len(items) + 4) \div 5
        core == {k \in DOMAIN freqs : freqs[k] >= threshold}
    IN  5 * Cardinality(core) < 3 * Cardinality(DOMAIN freqs)

-------------------------------------------------------------------------------
(* The whole: a table, buckets of tables, or nothing                             *)

Untouched == [untouched |-> TRUE]
IsTable(c) == "rows" \in DOMAIN c

RECURSIVE Compact(_)

TableRows(items) == Len(items) >= 2 /\ \A i \in DOMAIN items : IsObject(items[i])

CellFromValue(v) ==
    LET parsed == Held(v)
    IN  CASE IsArray(parsed) /\ TableRows(parsed.items) -> [nested |-> Compact(parsed.items)]
          [] IsScalar(parsed) /\ parsed.tag = "string" /\ parsed.text \in LongTexts ->
                [marker |-> parsed.text]
          [] OTHER -> Value(parsed)

BuildRow(item, columns) ==
    [k \in DOMAIN columns |-> IF Has(item, columns[k]) THEN CellFromValue(At(item, columns[k])) ELSE Missing]

BuildTable(items, freqs) ==
    LET columns == OrderedKeys(freqs)
    IN  FlattenUniformNested(
            [fields |-> [k \in DOMAIN columns |-> FieldSpec(items, columns[k])],
             rows |-> [i \in DOMAIN items |-> BuildRow(items[i], columns)]])

\* A group that does not make a table keeps its objects in one column.
BucketOf(group) ==
    LET c == Compact(group)
    IN  IF IsTable(c) THEN c
        ELSE [fields |-> <<[name |-> <<0>>, tag |-> "json", nullable |-> FALSE]>>,
              rows |-> [i \in DOMAIN group |-> <<Value(group[i])>>]]

BucketBy(items, key) ==
    [by |-> key,
     buckets |-> [v \in {At(items[i], key) : i \in DOMAIN items} |->
                    BucketOf(SelectSeq(items, LAMBDA item : At(item, key) = v))]]

Compact(items) ==
    LET freqs == KeyFreqs(items)
        found == Discriminators(items, freqs)
    IN  CASE ~TableRows(items) -> Untouched
          [] TableRows(items) /\ Heterogeneous(items, freqs) /\ found # {} ->
                BucketBy(items, DetectDiscriminator(items, found))
          [] OTHER -> BuildTable(items, freqs)

-------------------------------------------------------------------------------
(* The text of a cell: nothing for what is absent, null or empty, the bare text  *)
(* of a scalar, quoted JSON for the rest.                                        *)
FormatCell(cell) ==
    CASE cell = Missing -> [text |-> Empty]
      [] IsValue(cell) /\ IsScalar(cell.value) -> [text |-> cell.value.text]
      [] IsValue(cell) /\ ~IsScalar(cell.value) -> [json |-> cell.value]
      [] OTHER -> cell

-------------------------------------------------------------------------------
(* What is checked: reading the text back                                        *)

Absent == [absent |-> TRUE]

RECURSIVE ReadsBack(_, _)

(* May the text of a cell stand for a value (or for its absence), as the column  *)
(* declares it?                                                                  *)
StandsFor(field, shown, v) ==
    CASE v = Absent \/ v = Null -> field.nullable /\ shown = [text |-> Empty]
      [] v # Absent /\ IsScalar(v) /\ v # Null ->
            /\ field.tag \in {v.tag, "json"}
            /\ shown = [text |-> v.text] \/ (v.text \in LongTexts /\ shown = [marker |-> v.text])
      [] v # Absent /\ ~IsScalar(v) ->
            LET held == Held(v)
            IN  /\ field.tag \in {TypeTagFor(v), "json"}
                /\ IF "nested" \in DOMAIN shown THEN IsArray(held) /\ ReadsBack(held.items, shown.nested)
                   ELSE shown \in {[json |-> held], [json |-> v]}

\* the value at a path of one or two keys
ValueAt(item, path) ==
    LET outer == IF Has(item, <<path[1]>>) THEN Held(At(item, <<path[1]>>)) ELSE Absent
    IN  CASE Has(item, path) -> At(item, path)
          [] ~Has(item, path) /\ Len(path) = 2 /\ IsObject(outer) /\ Has(outer, <<path[2]>>) ->
                At(outer, <<path[2]>>)
          [] OTHER -> Absent

\* every key of an item has its column, or its object has been flattened
Covered(item, names) ==
    \A key \in ToSet(Keys(item)) :
        \/ key \in names
        \/ LET v == Held(At(item, key))
           IN  IsObject(v) /\ \A inner \in ToSet(Keys(v)) : key \o inner \in names

ReadsTable(items, table) ==
    LET names == {table.fields[k].name : k \in DOMAIN table.fields}
    IN  /\ Len(table.rows) = Len(items)
        /\ \A i \in DOMAIN items :
              /\ Len(table.rows[i]) = Len(table.fields)
              /\ \/ names = {<<0>>} /\ table.rows[i][1] = Value(items[i])
                 \/ /\ Covered(items[i], names)
                    /\ \A k \in DOMAIN table.fields :
                          StandsFor(table.fields[k], FormatCell(table.rows[i][k]),
                                    ValueAt(items[i], table.fields[k].name))

ReadsBack(items, c) ==
    IF IsTable(c) THEN ReadsTable(items, c)
    ELSE /\ \A i \in DOMAIN items : At(items[i], c.by) \in DOMAIN c.buckets
         /\ \A v \in DOMAIN c.buckets :
                ReadsTable(SelectSeq(items, LAMBDA item : At(item, c.by) = v), c.buckets[v])

\* An object with the key "a.b" beside the key "a": two columns of one name.
NameClash(items) ==
    \E i, j \in DOMAIN items : \E key \in ToSet(Keys(items[i])) :
        Len(key) = 2 /\ Has(items[j], <<key[1]>>)

(* "Lossless": whatever objects an array is made of, alike or not, nested or     *)
(* sparse, the table that replaces it has a row for each, in which every value   *)
(* is read back from its text and the declared type of its column, up to what is *)
(* absent, null or empty.                                                        *)
TableReadsBack(items) ==
    LET c == Compact(items)
    IN  c = Untouched \/ NameClash(items) \/ ReadsBack(items, c)
================================================================================
