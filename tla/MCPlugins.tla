------------------------------ MODULE MCPlugins ------------------------------
(* An instance of Plugins for TLC: two plugins that want the same tool     *)
(* name; pa also has a command and a hook, pb a hook of another name.      *)
EXTENDS Plugins

CONSTANTS pa, pb, c1, c2, c3, c4, tool, grep, hookA, hookB, cmd

Declared(k, n) == [kind |-> k, name |-> n]
Scripts ==
  [p \in Plugins |->
     IF p = pa
     THEN {Declared("tool", tool), Declared("command", cmd), Declared("hook", hookA)}
     ELSE {Declared("tool", tool), Declared("tool", grep), Declared("hook", hookB)}]

HostTools == {[kind |-> "tool", name |-> grep, owner |-> Host]}

Handlers ==
  [c \in Calls |-> CASE c = c1 -> [plugin |-> pa, by |-> "tool"]
                     [] c = c2 -> [plugin |-> pa, by |-> "command"]
                     [] c = c3 -> [plugin |-> pb, by |-> "async"]
                     [] OTHER -> [plugin |-> pa, by |-> "async"]]
=============================================================================
