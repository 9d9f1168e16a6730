------------------------------- MODULE Texts --------------------------------
(***************************************************************************)
(* The texts of the URIs the models parse, and what is known of each: its  *)
(* case, its percent encoding, the alphabet it is of and the numeral it    *)
(* spells.  A text is one of these strings and never looked into.          *)
(***************************************************************************)
EXTENDS Naturals, Sequences, TLC

\* What decodeURIComponent() and URLSearchParams make of the escaped texts.
Escapes == ("b%40b" :> "b@b") @@ ("p%40" :> "p@") @@ ("%2fv" :> "/v")
Decoded(t) == IF t \in DOMAIN Escapes THEN Escapes[t] ELSE t

\* decodeURIComponent() throws at these.
Malformed == {"%zz"}

\* toLowerCase()
Capitals == ("LocalHost" :> "localhost") @@ ("AMQP" :> "amqp") @@ ("Yes" :> "yes")
Lower(t) == IF t \in DOMAIN Capitals THEN Capitals[t] ELSE t

\* Texts that the host, the vhost and the query expressions do not match.
NotHosts == {"bad_host"}
NotVhosts == {"a b"}
NotQueries == {"a/b"}

\* The numerals, by prefix and digits.
Numerals ==
  "0" :> <<"0", <<>>>> @@ "7" :> <<"", <<7>>>> @@ "16" :> <<"", <<1, 6>>>> @@
  "020" :> <<"0", <<2, 0>>>> @@ "0x10" :> <<"0x", <<1, 0>>>> @@
  "0b101" :> <<"0b", <<1, 0, 1>>>> @@ "09" :> <<"0", <<9>>>>

\* The digits of the ports; URL.parse() does not accept the others.
PortDigits == "5673" :> <<5, 6, 7, 3>> @@ "80" :> <<8, 0>>

\* The decimal digits a path segment begins with, less leading zeros.
Leading == "0" :> "0" @@ "7" :> "7" @@ "007" :> "7" @@ "7x" :> "7" @@ "16" :> "16"
=============================================================================
