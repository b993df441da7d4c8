------------------------------ MODULE MCMspace ------------------------------
(* An mspace in bytes, with 64-byte pages and bins to match. *)
EXTENDS Mspace

AWorld(base, extern, site, bytes) ==
  [base |-> base, extern |-> extern, site |-> site, bytes |-> bytes, align |-> {64}]

\* A first segment nobody may extend, with room for two more that may grow; one
\* that grows to one side or the other; room for one more segment and small
\* requests only; requests for several units of memory, and for less than two
\* units of a larger chunk; chunks that memalign moves far into their mapping.
Settings ==
  { AWorld(256, TRUE, {512, 1024}, {24, 120}),
    AWorld(512, FALSE, {256}, {24, 120}), AWorld(256, FALSE, {512}, {24, 120}),
    AWorld(256, FALSE, {512}, {8, 24}),
    AWorld(256, FALSE, {512, 768}, {24, 600}),
    AWorld(256, TRUE, {512}, {120, 700}),
    [AWorld(256, FALSE, {512}, {120, 360}) EXCEPT !.align = {128}] }

AlwaysRequests == {24}
CallocProducts == {[n |-> 2, elem |-> 12], [n |-> 129, elem |-> 127]}
Lists == {<<24>>, <<24, 24>>}
Mark == -1

=============================================================================
