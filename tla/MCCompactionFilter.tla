------------------------ MODULE MCCompactionFilter -------------------------
(* Instances of CompactionFilter for TLC. *)
EXTENDS CompactionFilter, TLC

CONSTANTS text, blob, any

\* text is a string below two prefixes, blob is not a string.
Bytes == (text :> <<1, 2>>) @@ (blob :> <<9>>)

OnlyAny == <<any>>

\* blob would match if its bytes were replaced until they are a string.
AnyMatches == [k \in Keys |-> {any}]

TwoPrefixes == {<<1>>, <<1, 2>>}

\* One column family with each filter.
TextAndBinary == ("app_cf" :> "router") @@ ("raw_cf" :> "binary")
=============================================================================
