---------------------------- MODULE JsonValues ----------------------------
(***************************************************************************)
(* The JavaScript values the panel's pages pass around.  An object is a    *)
(* record of its keys: a key that is undefined is absent, and JSON.parse   *)
(* after JSON.stringify is the record itself.  A text the pages split at   *)
(* or join with a separator (a comma, a line end) is the sequence of its   *)
(* parts, so a text without a separator is <<text>> and the empty text,    *)
(* one empty part.  Every other text is a word.                            *)
(***************************************************************************)
EXTENDS Naturals, Sequences

NoJson    == <<>>        \* {}: an object without keys
EmptyText == <<"">>      \* ''

\* json[key], or the default when the key is undefined.
Or(json, key, default) == IF key \in DOMAIN json THEN json[key] ELSE default

\* new C(json.a, json.b, ...): each parameter of a constructor takes its default
\* when the argument is undefined.
New(defaults, json) == [key \in DOMAIN defaults |-> Or(json, key, defaults[key])]

\* The keys of both, those of `more` for a key in both.
With(json, more) ==
    [key \in DOMAIN json \cup DOMAIN more |-> IF key \in DOMAIN more THEN more[key] ELSE json[key]]

\* The keys of json that are in `keys`; condition ? json : undefined.
Only(json, keys)       == [key \in DOMAIN json \cap keys |-> json[key]]
Given(condition, json) == IF condition THEN json ELSE NoJson

\* parts.join(separator) as a text: splitting it again gives parts, except that
\* an empty list gives the empty text.
Joined(parts) == IF parts = <<>> THEN EmptyText ELSE parts

\* list.map(f)
Map(list, f(_)) == [i \in DOMAIN list |-> f(list[i])]

===========================================================================
