-------------------------- MODULE MCRegistryBuilder --------------------------
(***************************************************************************)
(* A small instance of RegistryBuilder for TLC: the default registry, one  *)
(* kind and one type of the host's that may meet it, each other and what   *)
(* configurations and plugins register.                                    *)
(***************************************************************************)
EXTENDS RegistryBuilder

CONSTANTS host, own, dsl, plug, l1, l2

NewKind(name, from, overwrite) ==
  [what |-> "kind", name |-> name, spec |-> from, overwrite |-> overwrite]

\* default, the drivers of driver_specs and the supported_drivers.
NewType(name, kind, default, declared, supported, from, overwrite) ==
  [what |-> "type", name |-> name, overwrite |-> overwrite,
   spec |-> [kind |-> kind, default |-> default, declared |-> declared,
             supported |-> supported, resolves |-> TRUE, from |-> from]]

Unresolved(call) == [call EXCEPT !.spec.resolves = FALSE]

MCHostKinds == {NewKind("service", host, FALSE)}
MCHostTypes == {NewType("httpapi", "service", None, {}, {}, host, FALSE)}

\* The host replaces a default type, moves it to a kind of its own.
MCHostCalls ==
  {NewKind("service", own, FALSE),
   NewType("mysql", "service", "http", {}, {"native"}, own, TRUE)}

Config(max, kinds, types, plugins) ==
  [max |-> max, kinds |-> kinds, types |-> types, plugins |-> plugins]

MCConfigs ==
  {Config(l1, << >>, << >>, <<"extends">>),
   Config(None, <<NewKind("service", dsl, FALSE)>>,
          <<NewType("httpapi", "service", "http", {}, {}, dsl, FALSE)>>, << >>),
   Config(l2, << >>, <<NewType("httpapi", "service", None, {}, {}, dsl, FALSE)>>, << >>),
   Config(None, << >>, <<NewType("httpapi", "sql", "http", {"native"}, {}, dsl, FALSE)>>, << >>),
   Config(None, << >>, <<Unresolved(NewType("httpapi", "sql", None, {}, {}, dsl, FALSE))>>, << >>)}

MCInstalled ==
  <<[name |-> "breaks", loads |-> TRUE, raises |-> TRUE,
     calls |-> <<NewKind("service", plug, TRUE)>>],
    [name |-> "extends", loads |-> TRUE, raises |-> FALSE,
     calls |-> <<NewKind("service", plug, TRUE),
                 NewType("httpapi", "service", None, {}, {"http"}, plug, TRUE)>>],
    [name |-> "missing_import", loads |-> FALSE, raises |-> FALSE, calls |-> << >>],
    [name |-> "undeclared", loads |-> TRUE, raises |-> FALSE,
     calls |-> <<NewType("httpapi", "sql", "http", {"native"}, {}, plug, FALSE)>>]>>

MCRequests ==
  {None, {"extends"}, {"breaks"}, {"extends", "missing_import"}, {"extends", "unknown"}, {"undeclared"}}
=============================================================================
