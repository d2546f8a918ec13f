---- MODULE MCPool ----
EXTENDS AdaptivePool
\* Four that fill the budget exactly, one more than the limit ever lets run
\* at once, and one beyond the budget.
Transfers == 1..5
Bytes == <<1, 1, 1, 2, 6>>
====
