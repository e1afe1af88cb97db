\* A leader key with a two-level tree, actions and keymaps that come and go.
SPECIFICATION KeysSpec
CONSTANTS
  a = a
  b = b
  go = go
  stop = stop
  more = more
  far = far
  km = km
  kn = kn
  sh = sh
  Leader = Leader
  Esc = Esc
  Group = Group
  None = None
  Keys <- MCKeys
  Actions <- MCActions
  BuiltIns <- MCBuiltIns
  Configured <- MCConfigured
  Keymaps <- MCKeymaps
  Shims <- MCShims
  Bindings <- MCBindings
  Provided <- MCProvided
  Holders = 2
PROPERTIES
  KeysAreFaithful
  TimersServe
