-------------------------------- MODULE Keysmith --------------------------------
(***************************************************************************)
(* The leader keys of one editor (LeaderKeys) as the run and the proofs    *)
(* about them both see them: under names that stand beside those of other  *)
(* programs.                                                               *)
(***************************************************************************)

CONSTANTS Leader, Esc, Keys, Actions, BuiltIns, Configured, Keymaps, Shims, Bindings, Provided, Holders, Group,
  None

VARIABLES registered, keymaps, holders, phase, handlers, trie, leader, mode, suggesting, typed, seen, fired

K == INSTANCE LeaderKeys

ASSUME KeysAssumption == K!KeysConstants

KeysSpec == K!Spec

\* Keys mean what they say: they are captured in context only, run what they spell, and the
\* session that they are pressed in has the bindings of the registry (index.ts:120-170).
KeysAreFaithful == K!KeysAreFaithful

\* Both timers of the leader serve: what waits for a key is given up, and what is shown is
\* brought up to date (leader.ts: the sequence timeout and the which-key delay).
TimersServe == K!TimersServe

\* What the code does not do: it has a counterexample, in no listed run
ExplicitBindingsWin == K!ExplicitBindingsWin
===============================================================================
