---------------------------- MODULE QueryParser -----------------------------
(***************************************************************************)
(* src/query_parser.ts and the parsing functions of src/utility.ts that it *)
(* is given: from the query of a URI to options.                           *)
(*                                                                         *)
(* A descriptor is the kind of its parser; its source and its target are   *)
(* the key it is found under.  A query is a function from keys to the      *)
(* sequence of their values, as in Uri.                                    *)
(***************************************************************************)
EXTENDS Uri

\* Mutant: the first value of a key is taken.
FirstValue(values) == Head(values)

asScalar(values) == Last(values)

Below(radix, digits) == \A i \in DOMAIN digits : digits[i] < radix

RadixOf == [p \in {"", "0", "0x", "0b"} |->
              CASE p = "" -> 10 [] p = "0" -> 8 [] p = "0x" -> 16 [] p = "0b" -> 2]

getRadix(t) ==
  {<<RadixOf[n[1]], n[2]>> :
     n \in {Numerals[s] : s \in {t} \intersect DOMAIN Numerals}}

parseInteger(t) ==
  {Number(r[1], r[2]) : r \in {s \in getRadix(t) : Below(s[1], s[2])}}

parseBoolean(t) ==
  IF Lower(t) \in {"true", "1", "on", "yes"} THEN {TRUE}
  ELSE IF Lower(t) \in {"false", "0", "off", "no"} THEN {FALSE}
  ELSE {}

parseRole(t) == {t} \intersect {"master", "slave"}

\* Without a parser a scalar and an array are taken as they are.
Identity(values) == {IF Len(values) = 1 THEN values[1] ELSE values}

Parsed(kind, values) ==
  CASE kind = "integer" -> parseInteger(asScalar(values))
    [] kind = "boolean" -> parseBoolean(asScalar(values))
    [] kind = "role" -> parseRole(asScalar(values))
    [] kind = "none" -> Identity(values)

\* The sources of the query are appended to init; none if one does not parse.
parse(descriptors, query, init) ==
  LET sources == DOMAIN descriptors \intersect DOMAIN query
      values == [s \in sources |-> Parsed(descriptors[s], query[s])]
  IN IF \E s \in sources : values[s] = {} THEN {}
     ELSE {[s \in sources |-> CHOOSE v \in values[s] : TRUE] @@ init}
=============================================================================
