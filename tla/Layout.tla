-------------------------------- MODULE Layout --------------------------------
(***************************************************************************)
(* Where the blobs of one run are: the alias is validated, the files of    *)
(* the artifacts get their keys under <alias>/<run_id>/, and whoever has   *)
(* the run's artifacts_uri parses the prefix out of it again to download,  *)
(* hold or purge, while the sweep has it from a listing of the bucket.     *)
(* A string is a sequence of characters, a file name counting as one.      *)
(***************************************************************************)
EXTENDS Naturals, Sequences, FiniteSets, Picking
Seqs == INSTANCE SequencesExt

CONSTANTS
    Chars,       \* kinds of characters of an alias: letters and digits, "._-", and unsafe ones
    MaxAlias,    \* bound: characters of an alias
    Names,       \* names of files and directories
    MarkerName,  \* RETENTION_MARKER
    MaxPaths     \* bound: artifacts of a call

ASSUME LayoutAssumption ==
    /\ Chars \subseteq {"alnum", "mark", "slash", "query", "newline"}
    /\ MaxAlias \in Nat
    /\ MarkerName \in Names
    /\ "slash" \notin Names
    /\ MaxPaths \in Nat

VARIABLES
    entry,   \* one log() call, and how far the run has come
    stored   \* the objects of the bucket: their keys and the files they came from

layoutVars == <<entry, stored>>

Aliases == UNION {[1..n -> Chars] : n \in 0..MaxAlias}

\* Paths of files, relative to the artifact they belong to: a file's is its name.
Rels == {<<n>> : n \in Names} \cup {<<d, "slash", n>> : d, n \in Names}

\* One of the files would have to be a directory for the other to be there.
Above(rel, other) == Seqs!IsPrefix(Append(rel, "slash"), other)
Obstructed(rels) == \E r, s \in rels : Above(r, s)

\* An artifact is the files it is made of; a path may also lead nowhere.
Trees    == {rels \in SUBSET Rels : ~Obstructed(rels)}
NoSuch   == {<<>>}
PathsSet == UNION {[1..n -> Trees \cup {NoSuch}] : n \in 0..MaxPaths}

EntryPCs == {"called", "rejected", "planning", "refused", "logged", "raised", "downloaded",
             "purged"}
Origins  == [path : 0..MaxPaths, rel : Rels]

\* The marker that hold writes comes from no file of the call.
HoldOrigin == [path |-> 0, rel |-> <<MarkerName>>]

LayoutTypeOK ==
    /\ entry.pc \in EntryPCs
    /\ entry.alias \in Aliases
    /\ entry.paths \in PathsSet
    /\ entry.held \in BOOLEAN
    /\ \A f \in entry.restored : f.rel \in Rels /\ f.from \in Origins
    /\ \A o \in stored : o.from \in Origins

LayoutInit ==
    /\ \E alias \in Aliases, paths \in PathsSet :
          entry = [pc |-> "called", alias |-> alias, paths |-> paths, held |-> FALSE,
                   restored |-> {}]
    /\ stored = {}

-----------------------------------------------------------------------------
(* Aliases, prefixes and URIs *)

Safe == {"alnum", "mark"}

\* Mutant: any alias will do.
AliasGiven(alias) == alias # <<>>

\* _SAFE_ID; its $ also matches before a newline at the end.
SafeAlias(alias) ==
    /\ alias # <<>>
    /\ alias[1] = "alnum"
    /\ \A i \in 2..Len(alias) : alias[i] \in Safe \/ (alias[i] = "newline" /\ i = Len(alias))

\* run_prefix; the bucket, which artifacts_uri puts before it, is left out.
RunPrefix(alias) == alias \o <<"slash", "run", "slash">>

StrippedLeft(s) ==
    LET n == CHOOSE n \in 0..Len(s) : /\ \A i \in 1..n : s[i] = "slash"
                                      /\ n < Len(s) => s[n + 1] # "slash"
    IN  SubSeq(s, n + 1, Len(s))

StrippedRight(s) ==
    LET n == CHOOSE n \in 0..Len(s) : /\ n > 0 => s[n] # "slash"
                                      /\ \A i \in (n + 1)..Len(s) : s[i] = "slash"
    IN  SubSeq(s, 1, n)

\* parse_s3_uri refuses what has a query; urlparse drops newlines wherever they are.
Parses(uri) == \A i \in 1..Len(uri) : uri[i] # "query"
ParsedKey(uri) == StrippedLeft(Picked(uri, {i \in 1..Len(uri) : uri[i] # "newline"}))

\* Mutant: the slash at the end of the prefix is kept.
MarkerKeyUnstripped(prefix) == prefix \o <<"slash", MarkerName>>

\* _marker_key
MarkerKey(prefix) == StrippedRight(prefix) \o <<"slash", MarkerName>>

-----------------------------------------------------------------------------

Validate ==
    /\ entry.pc = "called"
    /\ entry' = [entry EXCEPT !.pc = IF SafeAlias(entry.alias) THEN "planning" ELSE "rejected"]
    /\ UNCHANGED stored

\* The files of the call, each with the artifact it belongs to.
Files == {f \in Origins : f.path \in 1..Len(entry.paths) /\ f.rel \in entry.paths[f.path]}

Object(key, from) == [key |-> key, from |-> from]
KeyOf(f) == RunPrefix(entry.alias) \o f.rel

\* Mutant: artifacts are only compared with themselves.
CollidesWithin == \E f, g \in Files : f # g /\ f.path = g.path /\ KeyOf(f) = KeyOf(g)

\* The check of upload_artifacts, which no file is uploaded before.
Collides == \E f, g \in Files : f # g /\ KeyOf(f) = KeyOf(g)

\* upload_artifacts when every transfer works: it sends the files in the order of the plan, so
\* the last one with a key would stay.
UploadArtifacts ==
    /\ entry.pc = "planning"
    /\ LET missing == \E i \in 1..Len(entry.paths) : entry.paths[i] = NoSuch
       IN  IF missing \/ Collides
             THEN entry' = [entry EXCEPT !.pc = "refused"] /\ UNCHANGED stored
             ELSE /\ entry' = [entry EXCEPT !.pc = "logged"]
                  /\ stored' = {Object(KeyOf(f), f) : f \in
                                  {g \in Files : \A h \in Files :
                                     KeyOf(h) = KeyOf(g) => h.path <= g.path}}

\* The keys that list_prefix finds below the URI.
Listed == {o.key : o \in {s \in stored : Seqs!IsPrefix(ParsedKey(RunPrefix(entry.alias)), s.key)}}

\* write_retention_marker replaces what may be there.
Hold ==
    /\ entry.pc = "logged"
    /\ ~entry.held
    /\ Parses(RunPrefix(entry.alias))
    /\ LET key == MarkerKey(ParsedKey(RunPrefix(entry.alias)))
       IN  stored' = {o \in stored : o.key # key} \cup {Object(key, HoldOrigin)}
    /\ entry' = [entry EXCEPT !.held = TRUE]

\* download_prefix: a directory cannot be made where a file was written, which the order of the
\* listing puts first.
Download ==
    /\ entry.pc = "logged"
    /\ LET prefix == ParsedKey(RunPrefix(entry.alias))
           got    == {o \in stored : o.key \in Listed}
           rel(o) == SubSeq(o.key, Len(prefix) + 1, Len(o.key))
       IN  entry' = IF ~Parses(RunPrefix(entry.alias)) \/ Obstructed({rel(o) : o \in got})
                      THEN [entry EXCEPT !.pc = "raised"]
                      ELSE [entry EXCEPT !.pc = "downloaded",
                                         !.restored = {[rel |-> rel(o), from |-> o.from] : o \in got}]
    /\ UNCHANGED stored

\* delete_prefix, of a purge or of a sweep that found the run dead.
Purge ==
    /\ entry.pc = "logged"
    /\ entry' = [entry EXCEPT !.pc = IF Parses(RunPrefix(entry.alias)) THEN "purged" ELSE "raised"]
    /\ stored' = IF Parses(RunPrefix(entry.alias)) THEN {o \in stored : o.key \notin Listed}
                                                   ELSE stored

LayoutNext == Validate \/ UploadArtifacts \/ Hold \/ Download \/ Purge

LayoutSpec == LayoutInit /\ [][LayoutNext]_layoutVars

-----------------------------------------------------------------------------
(* Properties *)

\* The one alias that is accepted and does not survive a URI.
Broken(alias) == alias # <<>> /\ alias[Len(alias)] = "newline"

\* The marker key of a prefix as the sweep's scan has it, which knows the prefix from a listing.
SweepSeesMarker == \E o \in stored : o.key = StrippedRight(RunPrefix(entry.alias))
                                             \o <<"slash", MarkerName>>

\* "Rejects two artifacts that map to the same destination key (a silent overwrite would report
\* success while losing a file)": every file of a call that succeeds has an object of its own,
\* except that a hold takes the place of an artifact with the marker's name.
FilesAreKept ==
    entry.pc \in {"logged", "downloaded", "raised"} =>
        \A f \in Files : \/ Object(KeyOf(f), f) \in stored
                         \/ entry.held /\ f.rel = <<MarkerName>>

\* A hold through the URI is where the sweep looks for it, and the sweep takes nothing else for
\* one but an artifact with the marker's name.
HoldsAreSeen ==
    entry.pc = "logged" =>
        (SweepSeesMarker <=> \/ entry.held /\ ~Broken(entry.alias)
                             \/ \E f \in Files : f.rel = <<MarkerName>>)

\* "Restrict them to a filesystem/URI-safe charset": what reads or deletes through the URI reaches
\* all the run has.  A download brings every file back under its own path, or raises when the files
\* of two artifacts cannot be in one directory, which no upload refuses; a purge leaves nothing.
ReferencesReach ==
    ~Broken(entry.alias) =>
        /\ entry.pc = "downloaded" =>
             \A f \in Files : \/ [rel |-> f.rel, from |-> f] \in entry.restored
                              \/ entry.held /\ f.rel = <<MarkerName>>
        /\ entry.pc = "raised" =>
             Obstructed({f.rel : f \in Files} \cup (IF entry.held THEN {<<MarkerName>>} ELSE {}))
        /\ entry.pc = "purged" => stored = {}
=============================================================================
