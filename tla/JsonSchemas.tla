------------------------------ MODULE JsonSchemas ------------------------------
(***************************************************************************)
(* JSON Schemas as the importers infer and resolve them                    *)
(* (internal/importer) and as the faker fills them                         *)
(* (internal/generator/faker.go).                                          *)
(*                                                                         *)
(* A JSON value is a record with one field that names its kind: null,      *)
(* bool, int, frac (a number that is none), str, arr, obj.  A string is    *)
(* the sequence of its words; of one made for a format only the format is  *)
(* kept.  A schema is a record of its keywords, with ref for $ref.         *)
(***************************************************************************)
EXTENDS Integers, Sequences, FiniteSets, SequencesExt

Empty == [k \in {} |-> k]
Null == [null |-> TRUE]
Is(kind, v) == kind \in DOMAIN v
Has(s, keyword) == keyword \in DOMAIN s

-----------------------------------------------------------------------------
\* The validator's verdict, for the keywords the importers and the faker read,
\* with references to schemas.
Formats == {"email", "uuid", "date", "date-time", "uri", "hostname", "ipv4", "ipv6"}

RECURSIVE ConformsIn(_, _, _)
ConformsIn(v, s, schemas) ==
  /\ Has(s, "ref") => s.ref \in DOMAIN schemas /\ ConformsIn(v, schemas[s.ref], schemas)
  /\ Has(s, "const") => v = s.const
  /\ Has(s, "enum") => v \in ToSet(s.enum)
  /\ Has(s, "type") =>
       CASE s.type = "object"  -> Is("obj", v)
         [] s.type = "array"   -> Is("arr", v)
         [] s.type = "integer" -> Is("int", v)
         [] s.type = "number"  -> Is("int", v) \/ Is("frac", v)
         [] s.type = "boolean" -> Is("bool", v)
         [] s.type = "null"    -> Is("null", v)
         [] OTHER              -> Is("str", v)
  /\ (Has(s, "required") /\ Is("obj", v)) => s.required \subseteq DOMAIN v.obj
  /\ (Has(s, "properties") /\ Is("obj", v)) =>
       \A k \in DOMAIN v.obj \cap DOMAIN s.properties : ConformsIn(v.obj[k], s.properties[k], schemas)
  /\ Is("arr", v) =>
       /\ Has(s, "items") => \A i \in DOMAIN v.arr : ConformsIn(v.arr[i], s.items, schemas)
       /\ Has(s, "minItems") => Len(v.arr) >= s.minItems
       /\ Has(s, "maxItems") => Len(v.arr) <= s.maxItems
  /\ Is("int", v) \/ Is("frac", v) =>
       LET number == IF Is("int", v) THEN v.int ELSE v.frac
       IN  /\ Has(s, "minimum") => number >= s.minimum
           /\ Has(s, "maximum") => number <= s.maximum
  /\ (Has(s, "format") /\ Is("str", v) /\ s.format \in Formats) => v.str = <<s.format>>
  /\ Has(s, "allOf") => \A i \in DOMAIN s.allOf : ConformsIn(v, s.allOf[i], schemas)
  /\ Has(s, "anyOf") => \E i \in DOMAIN s.anyOf : ConformsIn(v, s.anyOf[i], schemas)
  /\ Has(s, "oneOf") => Cardinality({i \in DOMAIN s.oneOf : ConformsIn(v, s.oneOf[i], schemas)}) = 1

Conforms(v, s) == ConformsIn(v, s, Empty)

-----------------------------------------------------------------------------
\* Mutant of inferJSONSchema: every number of an example is an integer.
RECURSIVE InferIntegers(_)
InferIntegers(v) ==
  IF Is("frac", v) \/ Is("int", v) THEN [type |-> "integer"]
  ELSE IF Is("obj", v)
  THEN [type |-> "object", required |-> DOMAIN v.obj,
        properties |-> [k \in DOMAIN v.obj |-> InferIntegers(v.obj[k])]]
  ELSE Empty

\* The type of an example's elements is that of the first that is not null;
\* every key of an object is required.
RECURSIVE inferJSONSchema(_)
inferJSONSchema(v) ==
  CASE Is("null", v) -> [type |-> "null"]
    [] Is("bool", v) -> [type |-> "boolean"]
    [] Is("int", v)  -> [type |-> "integer"]
    [] Is("frac", v) -> [type |-> "number"]
    [] Is("str", v)  -> [type |-> "string"]
    [] Is("arr", v)  ->
         LET typed == SelectSeq(v.arr, LAMBDA x : ~Is("null", x))
         IN  [type |-> "array",
              items |-> IF typed = <<>> THEN Empty ELSE inferJSONSchema(Head(typed))]
    [] Is("obj", v)  ->
         LET props == [k \in DOMAIN v.obj |-> inferJSONSchema(v.obj[k])]
         IN  IF DOMAIN v.obj = {} THEN [type |-> "object", properties |-> props]
             ELSE [type |-> "object", properties |-> props, required |-> DOMAIN v.obj]

-----------------------------------------------------------------------------
maxRefDepth == 10

\* A reference is replaced by its target, down to maxRefDepth levels, a map
\* of properties and a list counting as one each.  The code replaces in place;
\* a component that reaches itself then becomes a value that cannot be
\* marshalled, where here it keeps a reference: neither is stored.
RECURSIVE resolveRefs(_, _, _)
resolveRefs(s, schemas, depth) ==
  IF depth >= maxRefDepth THEN s
  ELSE IF Has(s, "ref")
  THEN IF s.ref \in DOMAIN schemas THEN resolveRefs(schemas[s.ref], schemas, depth + 1) ELSE s
  ELSE [k \in DOMAIN s |->
          CASE k = "items" -> resolveRefs(s[k], schemas, depth + 1)
            [] k = "properties" -> IF depth + 1 >= maxRefDepth THEN s[k] ELSE
                 [p \in DOMAIN s[k] |-> resolveRefs(s[k][p], schemas, depth + 2)]
            [] k \in {"allOf", "anyOf", "oneOf"} -> IF depth + 1 >= maxRefDepth THEN s[k] ELSE
                 [i \in DOMAIN s[k] |-> resolveRefs(s[k][i], schemas, depth + 2)]
            [] OTHER -> s[k]]

SubSchemas(s) == (IF Has(s, "items") THEN {s.items} ELSE {})
                 \cup (IF Has(s, "properties") THEN Range(s.properties) ELSE {})
                 \cup UNION {ToSet(s[k]) : k \in DOMAIN s \cap {"allOf", "anyOf", "oneOf"}}

\* ValidateSchema: nothing to resolve a reference against.
RECURSIVE Compiles(_)
Compiles(s) == ~Has(s, "ref") /\ \A sub \in SubSchemas(s) : Compiles(sub)

-----------------------------------------------------------------------------
maxFillDepth == 10

Without(s, keyword) == [k \in DOMAIN s \ {keyword} |-> s[k]]
Merge(a, b) == [k \in DOMAIN a \cup DOMAIN b |-> IF k \in DOMAIN b THEN b[k] ELSE a[k]]

\* allOf members are laid over one another keyword by keyword; of anyOf and
\* oneOf the first member is all that is left.
composedOf(s) ==
  IF Has(s, "allOf") /\ s.allOf # <<>> THEN FoldLeft(Merge, Without(s, "allOf"), s.allOf)
  ELSE IF Has(s, "oneOf") /\ s.oneOf # <<>> THEN s.oneOf[1]
  ELSE IF Has(s, "anyOf") /\ s.anyOf # <<>> THEN s.anyOf[1]
  ELSE s

typeOf(s) == IF Has(s, "type") THEN s.type
             ELSE IF Has(s, "properties") THEN "object" ELSE "string"

Bound(s, keyword, default) == IF Has(s, keyword) THEN s[keyword] ELSE default

arrayLength(s) ==
  LET least == Bound(s, "minItems", 1)
      most == Bound(s, "maxItems", least)
      length == IF most < least THEN most ELSE least
  IN  IF length < 0 THEN 0 ELSE length

\* clampRange: bounds in the wrong order are swapped.  Of the range only the
\* ends are kept.
Clamped(min, max) == IF min > max THEN <<max, min>> ELSE <<min, max>>
Ends(range) == {range[1], range[2]}

\* The objects with one of fields[k] at each key k.
Objects(fields) ==
  {o \in [DOMAIN fields -> UNION Range(fields)] : \A k \in DOMAIN fields : o[k] \in fields[k]}

\* A format fillString does not know makes some word.
fillString(s) ==
  LET known == Formats \cup {"url", "phone"}
  IN  [str |-> IF Has(s, "format") /\ s.format \in known THEN <<s.format>> ELSE <<"word">>]

\* The values a schema can be filled with.
RECURSIVE fillValue(_, _)
fillValue(schema, depth) ==
  LET s == composedOf(schema)
      ints == Ends(Clamped(Bound(s, "minimum", 1), Bound(s, "maximum", 1000)))
      floats == Ends(Clamped(Bound(s, "minimum", 0), Bound(s, "maximum", 100)))
      elements == IF Has(s, "items") THEN fillValue(s.items, depth + 1) ELSE {Null}
      fields == [k \in (IF Has(s, "properties") THEN DOMAIN s.properties ELSE {}) |->
                   fillValue(s.properties[k], depth + 1)]
  IN  IF depth >= maxFillDepth THEN {Null}
      ELSE IF Has(s, "const") THEN {s.const}
      ELSE IF Has(s, "enum") /\ s.enum # <<>> THEN ToSet(s.enum)
      ELSE CASE typeOf(s) = "object"  -> {[obj |-> o] : o \in Objects(fields)}
             [] typeOf(s) = "array"   -> {[arr |-> a] : a \in [1..arrayLength(s) -> elements]}
             [] typeOf(s) = "integer" -> {[int |-> n] : n \in ints}
             [] typeOf(s) = "number"  -> {[frac |-> n] : n \in floats}
             [] typeOf(s) = "boolean" -> {[bool |-> b] : b \in BOOLEAN}
             [] typeOf(s) = "null"    -> {Null}
             [] OTHER                 -> {fillString(s)}
=============================================================================
