------------------------------ MODULE MCLeaderKeys ------------------------------
\* The instance of LeaderKeys that TLC checks: an explicit binding of two keys and a
\* default of one; a keymap that adds to the group of the first, one that would stand on
\* its way, and a shim that collides with the second.
EXTENDS Keysmith

CONSTANTS a, b, go, stop, more, far, km, kn, sh

B(seq, act, explicit) == [seq |-> seq, act |-> act, explicit |-> explicit]

MCConfigured == {B(<<a, b>>, go, TRUE), B(<<b>>, stop, FALSE)}
MCKeys       == {a, b}
MCActions    == {go, stop, more}
MCBuiltIns   == {stop}
MCKeymaps    == {km, kn}
MCShims      == {sh}
MCBindings   == [s \in {km, kn, sh} |->
                   CASE s = km -> {B(<<a, a>>, more, FALSE)}
                     [] s = kn -> {B(<<a>>, far, FALSE)}
                     [] s = sh -> {B(<<b>>, more, FALSE)}]
MCProvided   == [s \in {sh} |-> {more}]
===============================================================================
