------------------------------- MODULE Routing --------------------------------
(***************************************************************************)
(* Paths: which location a request goes to (match_location of              *)
(* server/mod.rs) and which file it names below the root of a static one   *)
(* (uri_to_relative and safe_join of static_files.rs).                     *)
(*                                                                         *)
(* A path is the sequence of its characters, of which "/" and "." matter;  *)
(* an Option is a set of at most one element.                              *)
(***************************************************************************)
EXTENDS Integers, Sequences, SequencesExt

Root == <<"/">>
Dot == <<".">>
DotDot == <<".", ".">>

StartsWith(path, prefix) ==
    /\ Len(path) >= Len(prefix)
    /\ \A i \in 1..Len(prefix) : path[i] = prefix[i]

\* The prefix is followed by a "/".
OnBoundary(path, prefix) ==
    /\ Len(path) > Len(prefix)
    /\ StartsWith(path, prefix)
    /\ path[Len(prefix) + 1] = "/"

\* Mutant of location_prefix_matches: /apifoo matches /api.
PrefixMatchesAnywhere(path, prefix) == StartsWith(path, prefix)

location_prefix_matches(path, prefix) ==
    IF prefix = Root THEN StartsWith(path, Root)
    ELSE path = prefix \/ OnBoundary(path, prefix)

\* The locations that match, and the index of the longest, 0 if there is
\* none: of equally long ones max_by_key returns the last.
Matching(path, locations) ==
    {i \in 1..Len(locations) : location_prefix_matches(path, locations[i].path)}

match_location(path, locations) ==
    LET found == Matching(path, locations) IN
    IF found = {} THEN 0
    ELSE CHOOSE i \in found : \A j \in found :
           LET li == Len(locations[i].path)
               lj == Len(locations[j].path)
           IN  lj < li \/ (lj = li /\ j <= i)

-----------------------------------------------------------------------------

\* What is left of the path after the location's prefix.
uri_to_relative(prefix, path) ==
    IF prefix = Root THEN {path}
    ELSE IF path = prefix THEN {Root}
    ELSE IF OnBoundary(path, prefix)
      THEN {SubSeq(path, Len(prefix) + 1, Len(path))}
      ELSE {}

\* One more character of a path: a slash begins a new part.
AddChar(parts, c) ==
    IF c = "/" THEN Append(parts, <<>>)
    ELSE [parts EXCEPT ![Len(parts)] = Append(@, c)]

\* The parts of a path between its slashes, for each number of characters.
Splits(path) ==
    LET parts[n \in 0..Len(path)] ==
          IF n = 0 THEN << <<>> >> ELSE AddChar(parts[n - 1], path[n])
    IN parts

Split(path) == Splits(path)[Len(path)]

\* What the first n parts keep without those names.
Kept(parts, names) ==
    LET kept[n \in 0..Len(parts)] ==
          IF n = 0 THEN <<>>
          ELSE IF parts[n] \in names THEN kept[n - 1]
          ELSE Append(kept[n - 1], parts[n])
    IN kept

Without(parts, names) == Kept(parts, names)[Len(parts)]

\* Path::components: no empty part, and no ".".
Unnamed == {<<>>, Dot}
Components(rel) == Without(Split(rel), Unnamed)

\* Mutant of safe_join: a ".." is pushed like any other name.
JoinAll(rel) == {Components(rel)}

\* The names to push to the root, or None if one of them is "..".
safe_join(rel) ==
    IF DotDot \in ToSet(Components(rel)) THEN {} ELSE {Components(rel)}

-----------------------------------------------------------------------------
(* Properties: the same by the parts between the slashes, of which          *)
(* match_location knows nothing.                                            *)

\* The location of the root has one part, the empty one before the slash.
PrefixParts(prefix) == IF prefix = Root THEN << <<>> >> ELSE Split(prefix)

\* The locations whose parts begin the path, and those of them with most.
\* The root begins whatever goes on after it.
Fits(prefix, path) ==
    /\ IsPrefix(PrefixParts(prefix), Split(path))
    /\ prefix = Root => Len(Split(path)) > 1

Fitting(path, locations) == {i \in 1..Len(locations) : Fits(locations[i].path, path)}

MostParts(path, locations) ==
    LET fit == Fitting(path, locations) IN
    {i \in fit : \A j \in fit : Len(PrefixParts(locations[j].path))
                                  <= Len(PrefixParts(locations[i].path))}

\* What is left of a path's parts after those of a location.
RestOf(prefix, path) ==
    SubSeq(Split(path), Len(PrefixParts(prefix)) + 1, Len(Split(path)))

=============================================================================
