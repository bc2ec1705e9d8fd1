--------------------------- MODULE MCStoredRecord ---------------------------
(***************************************************************************)
(* A small instance of StoredRecord for TLC: four processes over a table   *)
(* that holds a row none of them may have written.                         *)
(***************************************************************************)
EXTENDS StoredRecord, Naturals, FiniteSets, TLC

CONSTANTS x, y, d1, d2, o1, o2, m1, k1, k2, sql, file

Model(accepts, required, strict) ==
  [accepts |-> accepts, required |-> required, strict |-> strict]

MaxChanged == 2  \* columns of the first row that are not Healthy
MaxNamed == 2    \* columns a patch names

\* A release, the next one (it requires a property more, and knows more secrets
\* and options), a process with another key and no secrets model, and one without
\* the type.
MCProcesses == {"current", "next", "rotated", "bare"}

MCKey == [p \in MCProcesses |-> IF p = "rotated" THEN k2 ELSE k1]

MCRegistry ==
  [p \in MCProcesses |->
     [known       |-> p # "bare",
      kind        |-> sql,
      properties  |-> CASE p = "current" -> Model([a |-> {x}, b |-> {x, y}], {"a"}, FALSE)
                        [] p = "next" -> Model([a |-> {x}, b |-> {x, y}], {"a", "b"}, TRUE)
                        [] OTHER -> Model([a |-> {x, y}], {}, FALSE),
      secrets     |-> CASE p = "rotated" -> None
                        [] p = "next" -> Model([a |-> {x, y}, b |-> {x, y}], {}, FALSE)
                        [] OTHER -> Model([a |-> {x}], {"a"}, FALSE),
      default     |-> IF p = "rotated" THEN None ELSE d1,
      options     |-> CASE p = "current" -> (d1 :> {}) @@ (d2 :> {o1})
                        [] p = "rotated" -> << >>
                        [] OTHER -> (d1 :> {}) @@ (d2 :> {o1, o2}),
      resolves    |-> CASE p = "current" -> {o1} [] p = "rotated" -> {} [] OTHER -> {o1, o2}]]

Healthy ==
  [kind |-> sql, driver |-> None, driver_options |-> None, properties |-> [a |-> x],
   secrets |-> [key |-> k1, val |-> [a |-> x]], labels |-> Empty, metadata |-> Empty, extra |-> Empty]

\* metadata and extra go through the code of labels.
MCStored ==
  {r \in Rows : /\ r.metadata = Empty /\ r.extra = Empty
                /\ Cardinality({c \in DOMAIN Healthy : r[c] # Healthy[c]}) <= MaxChanged}

\* What a patch may set a column to.
Named(c) ==
  CASE c = "driver" -> Drivers \cup {None}
    [] c = "driver_options" -> Options \cup {None}
    [] c = "properties" -> {EmptyObject, [a |-> x, b |-> y], [a |-> y]}
    [] c = "secrets" -> {EmptyObject, [a |-> x, b |-> y]}
    [] OTHER -> {m1, None}

MCDrafts ==
  {[Healthy EXCEPT !.secrets = s, !.driver = d, !.driver_options = o, !.properties = f] :
     s \in {[a |-> x, b |-> y], [a |-> y]}, d \in {None, d2}, o \in {None, o1}, f \in Named("properties")}

MCPatches ==
  UNION {{patch \in [C -> UNION {Named(c) : c \in C}] : \A c \in C : patch[c] \in Named(c)} :
         C \in {D \in SUBSET (Columns \ {"metadata", "extra"}) : Cardinality(D) <= MaxNamed}}
=============================================================================
