---- MODULE MCTokens ----
EXTENDS Tokens
Backends == {[code |-> "google", policy |-> "never"], [code |-> "google", policy |-> "strict"],
             [code |-> "pkce", policy |-> "never"], [code |-> "pkce", policy |-> "lenient"]}
====
