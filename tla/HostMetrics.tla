---------------------------- MODULE HostMetrics ----------------------------
(***************************************************************************)
(* The values every host reading is made of: a metric that carries how it  *)
(* came about, a kernel file that was read or could not be, and the        *)
(* tokens in it.                                                           *)
(*                                                                         *)
(* A metric that is unavailable has no value at all, only a reason.  A     *)
(* quotient is the pair of its terms: <<n, d>> stands for n / d.           *)
(***************************************************************************)
EXTENDS Integers, Sequences, FiniteSets, Functions, FiniteSetsExt

(* types.ts: observed, derived, observedEstimate, unavailable.             *)
Observed(v)  == [provenance |-> "OBSERVED", value |-> v, estimate |-> FALSE]
Derived(v)   == [provenance |-> "DERIVED", value |-> v, estimate |-> FALSE]
Estimate(v)  == [provenance |-> "OBSERVED", value |-> v, estimate |-> TRUE]
Missing(why) == [provenance |-> "UNAVAILABLE", reason |-> why]

HasValue(m) == m.provenance # "UNAVAILABLE"

(* A token of a kernel file is the number it spells, or Garbage when it    *)
(* spells none that a double holds exactly.                                *)
Garbage == -1
Unsigned(token) == token >= 0

(* An absent number, field or file content.                                *)
Null == -1
Nothing == <<>>

(* read.ts: a file was read, or it failed in one of the ways classify      *)
(* tells apart.                                                            *)
Text(content) == [ok |-> TRUE, text |-> content]
Failed(kind)  == [ok |-> FALSE, failure |-> kind]

Classify(errno) ==
    CASE errno \in {"ENOENT", "ENOTDIR"} -> "missing"
      [] errno \in {"EACCES", "EPERM"}   -> "permission"
      [] OTHER                           -> "io"

ReadTextFile(file) ==
    IF file.errno = "0" THEN Text(file.content) ELSE Failed(Classify(file.errno))

(* parseUint and readUintFile: a number, or Null for a file that failed    *)
(* and for a text that is not one.                                         *)
ParseUint(token) == IF Unsigned(token) THEN token ELSE Null

ReadUintFile(file) ==
    LET result == ReadTextFile(file)
    IN  IF result.ok THEN ParseUint(result.text) ELSE Null

(* A sysfs text: what it says, unless it failed or is empty.               *)
TextMetric(file) ==
    LET result == ReadTextFile(file)
    IN  CASE ~result.ok        -> Missing(result.failure)
          [] result.ok /\ result.text = "" -> Missing("empty")
          [] OTHER             -> Observed(result.text)

MetricOrUnavailable(v, why) == IF v = Null THEN Missing(why) ELSE Observed(v)

(* A kernel file as the instances give it.                                 *)
File(content)  == [errno |-> "0", content |-> content]
NoFile(errno)  == [errno |-> errno]

=============================================================================
