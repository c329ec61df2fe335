----------------------------- MODULE MOHandler -----------------------------
(***************************************************************************)
(* client/src/MOHandler.cpp: the handler of one MO type.  A handler value  *)
(* is what a MOHandler object holds: the node tree read from the DDF file, *)
(* the counter behind the library-assigned miids and the instance map.     *)
(*                                                                         *)
(* A string that may contain '/' is the nonempty sequence of its           *)
(* '/'-separated segments: "a" is <<"a">>, "a/b" is <<"a", "b">>, "/b" is  *)
(* <<"", "b">>.  find("/") fails exactly on the sequences of length one.   *)
(***************************************************************************)
EXTENDS Integers, Sequences, FiniteSets

CONSTANTS
  Segments,      (* path segments; urns and miids are segments             *)
  Mos,           (* the application's MO::Interface objects                *)
  NoMo,          (* a miid that is absent from the instance map            *)
  Trees,         (* node trees a DDF file may yield                        *)
  Wrap,          (* 2^32 in the code: the values of unsigned next_miid     *)
  NumeralOf      (* std::to_string on 0 .. Wrap-1                          *)

ASSUME HandlerAssumption ==
  /\ NoMo \notin Mos
  /\ Wrap \in Nat /\ Wrap > 1
  /\ NumeralOf \in [0 .. Wrap-1 -> Segments]
  /\ \A m, n \in 0 .. Wrap-1 : NumeralOf[m] = NumeralOf[n] => m = n

Handlers == [root      : Trees,
             next_miid : 0 .. Wrap-1,
             instance  : [Segments -> Mos \cup {NoMo}]]

NewHandler(tree) == [root      |-> tree,
                     next_miid |-> 1,
                     instance  |-> [miid \in Segments |-> NoMo]]

Has(h, miid) == h.instance[miid] # NoMo

Instances(h) == {miid \in Segments : Has(h, miid)}

-----------------------------------------------------------------------------
(* add_instance with an empty miid probes the numerals from next_miid      *)
(* upwards, wrapping like the unsigned it is, until one is not in the map. *)

Probed(h, k) == NumeralOf[(h.next_miid + k) % Wrap]

(* Mutant: the miid is not looked up before it is taken.                 *)
FreeProbesUnchecked(h) == 0 .. Wrap-1

FreeProbes(h) == {k \in 0 .. Wrap-1 : ~Has(h, Probed(h, k))}

FirstFree(h) == CHOOSE k \in FreeProbes(h) : \A j \in FreeProbes(h) : k <= j

(* Mutant: next_miid never wraps.                                          *)
ProbeMiidNoWrap(h) == [h EXCEPT !.next_miid = @ + FirstFree(h) + 1]

(* next_miid is advanced before the compatibility check and stays so when  *)
(* the check refuses the object.                                           *)
ProbeMiid(h) == [h EXCEPT !.next_miid = (@ + FirstFree(h) + 1) % Wrap]

(* Mutant: the object's answer is ignored.                               *)
OfferUnchecked(h, miid, mo, compatible) == [h EXCEPT !.instance[miid] = mo]

Offer(h, miid, mo, compatible) ==
  IF compatible THEN [h EXCEPT !.instance[miid] = mo] ELSE h

-----------------------------------------------------------------------------
(* node_set: modata.dump() throws on text that is not UTF-8 before the     *)
(* instance is looked up; a path that is a miid alone makes                *)
(* uri.substr(npos) throw when the instance exists; every other way        *)
(* returns false, with or without the node.                                *)
HandlerNodeSet(h, path, body) ==
  IF body = "not_utf8" \/ (Has(h, path[1]) /\ Len(path) = 1)
    THEN "throws"
    ELSE "false"
=============================================================================
