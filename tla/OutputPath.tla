----------------------------- MODULE OutputPath -----------------------------
(***************************************************************************)
(* renderers/shared/output-path.mjs: where a command may write.  A path is *)
(* a sequence of names from the root; a tree gives the entry of every      *)
(* place that exists, under the name it is stored by.  A directory may be  *)
(* loose: it finds a name by its folded form, as file systems that ignore  *)
(* case or Unicode normalisation do.                                       *)
(***************************************************************************)
EXTENDS Naturals, Sequences, SequencesExt

CONSTANTS
  Folded,    \* the folded form of each name
  MaxLinks   \* MAX_SYMLINK_DEPTH

Names == DOMAIN Folded
Paths == Seq(Names)

Dir(id, loose, writable) ==
  [kind |-> "dir", id |-> id, loose |-> loose, writable |-> writable]
File(id) == [kind |-> "file", id |-> id]
Link(to) == [kind |-> "link", to |-> to]

\* The entry that looking up the last name of p finds, in a directory that exists.
Found(t, p) ==
  {q \in DOMAIN t :
     /\ q # <<>> /\ Front(q) = Front(p)
     /\ \/ q = p
        \/ t[Front(q)].loose /\ Folded[Last(q)] = Folded[Last(p)]}

(***************************************************************************)
(* canonicalize: links are followed wherever they stand, what does not     *)
(* exist is kept as it is spelled.  No result is a cycle of links.         *)
(***************************************************************************)
Canonical(t, target) ==
  LET walk[s \in [at : Paths, rest : Paths, links : 0..MaxLinks]] ==
        LET hits == Found(t, Append(s.at, Head(s.rest)))
            hit == CHOOSE q \in hits : TRUE IN
        IF s.rest = <<>> THEN {s.at}
        ELSE IF hits = {} THEN {s.at \o s.rest}
        ELSE IF t[hit].kind # "link"
        THEN walk[[s EXCEPT !.at = hit, !.rest = Tail(@)]]
        ELSE IF s.links = MaxLinks THEN {}
        ELSE walk[[at |-> <<>>, rest |-> t[hit].to \o Tail(s.rest),
                   links |-> s.links + 1]]
  IN  walk[[at |-> <<>>, rest |-> target, links |-> 0]]

Resolvable(t, p) == Canonical(t, p) # {}
Real(t, p) == CHOOSE q \in Canonical(t, p) : TRUE
Exists(t, p) == Resolvable(t, p) /\ Real(t, p) \in DOMAIN t

\* nearestExistingDirectory of a canonical path.
NearestDirectory(t, p) ==
  SubSeq(p, 1, CHOOSE n \in 0..Len(p) - 1 :
    LET is(k) == SubSeq(p, 1, k) \in DOMAIN t /\ t[SubSeq(p, 1, k)].kind = "dir"
    IN  is(n) /\ \A k \in n + 1..Len(p) - 1 : ~is(k))

FoldedFrom(d, p) == [i \in 1..Len(p) - Len(d) |-> Folded[p[Len(d) + i]]]
From(d, p) == SubSeq(p, Len(d) + 1, Len(p))

(***************************************************************************)
(* futurePathsAlias: a directory that cannot be probed counts as loose.    *)
(***************************************************************************)
NeverLooseMutant(entry) == FALSE
TakenAsLoose(entry) == entry.loose \/ ~entry.writable
FuturePathsAlias(t, p, q) ==
  LET l == Real(t, p)
      r == Real(t, q) IN
  \/ l = r
  \/ /\ l # <<>> /\ r # <<>>
     /\ LET dl == NearestDirectory(t, l)
            dr == NearestDirectory(t, r) IN
        /\ t[dl].id = t[dr].id
        /\ IF TakenAsLoose(t[dl]) THEN FoldedFrom(dl, l) = FoldedFrom(dr, r)
           ELSE From(dl, l) = From(dr, r)

PathsAlias(t, p, q) ==
  \/ FuturePathsAlias(t, p, q)
  \/ /\ Exists(t, p) /\ Exists(t, q)
     /\ t[Real(t, p)].id = t[Real(t, q)].id

(***************************************************************************)
(* resolveOutputPath.  A request says who named the output (the command    *)
(* line, the document or nobody), where, what it must stay away from and   *)
(* the names that carry the extension.                                     *)
(***************************************************************************)
Accepted(t, request) ==
  LET out == request.path IN
  /\ Resolvable(t, out)
  /\ \A p \in request.avoid : Resolvable(t, p) /\ ~PathsAlias(t, out, p)
  /\ request.source = "meta" =>
       /\ ~request.absolute
       /\ Last(out) \in request.extension
       /\ Last(Real(t, out)) \in request.extension
       /\ IsPrefix(Real(t, request.cwd), Real(t, out))
  /\ request.source = "cli" =>
       /\ Last(out) \in request.extension
       /\ Last(Real(t, out)) \in request.extension

-----------------------------------------------------------------------------
(* What the system calls do.                                               *)

\* The entry a rename to p replaces: links above the last name are followed.
Slot(t, p) ==
  LET q == Append(Real(t, Front(p)), Last(p))
      hits == Found(t, q) IN
  IF hits = {} THEN q ELSE CHOOSE h \in hits : TRUE

(***************************************************************************)
(* The place a path stands for, by identity: what exists there, or the     *)
(* directory a file would appear in and the name it would be found by.     *)
(***************************************************************************)
Place(t, p) ==
  LET q == Real(t, p)
      d == NearestDirectory(t, q) IN
  IF q \in DOMAIN t THEN <<t[q].id, <<>>>>
  ELSE <<t[d].id, IF t[d].loose THEN FoldedFrom(d, q) ELSE From(d, q)>>

Probed(t) == \A q \in DOMAIN t : t[q].kind = "dir" => t[q].writable

=============================================================================
