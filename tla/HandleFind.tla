----------------------------- MODULE HandleFind -----------------------------
(***************************************************************************)
(* HandleMap<T>::Find (kmsp11/util/handle_map.h, lines 62-84): collect the *)
(* handles whose object satisfies the predicate while iterating items_, a  *)
(* flat_hash_map whose iteration order is unspecified, then std::sort them *)
(* with the comparator on their objects if one is given.  std::sort is not *)
(* stable: elements neither of which is less than the other may come out   *)
(* in any order.                                                           *)
(***************************************************************************)
EXTENDS Naturals, Sequences

LOCAL SeqExt == INSTANCE SequencesExt

(* The set of all sequences Find may return for the map `map`: `matching` *)
(* is the set of handles whose object satisfies the predicate and `less`   *)
(* the comparator, as the set of pairs <<a, b>> of objects with a < b.     *)
FindResults(map, matching, less) ==
  { s \in SeqExt!SetToSeqs(matching) :
      \A i, j \in 1..Len(s) : i < j => <<map[s[j]], map[s[i]]>> \notin less }

(* Find without a comparator: every iteration order. *)
FindUnsorted(matching) == SeqExt!SetToSeqs(matching)

====
