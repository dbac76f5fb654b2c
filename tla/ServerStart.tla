----------------------------- MODULE ServerStart -----------------------------
(***************************************************************************)
(* The start of soro-server and what it keeps on disk: main.cc and         *)
(* soro_server.cc in web/server/src, the infrastructure, tiles and         *)
(* timetable modules in web/server/src/modules, and serializable.h in      *)
(* include/soro/utls, built with SERIALIZE as the release presets are.     *)
(*                                                                         *)
(* A start parses what has changed since it was last saved and loads the   *)
(* rest from the server resources.  A file that is being written is there  *)
(* from the first byte on; the server can be stopped or killed at any      *)
(* step, and the sources can change at any time.  A version stands for the *)
(* content of a source and of what was made of it.  Nothing tells a file   *)
(* that is not whole from one that is (MODE is NONE), and to read it is    *)
(* undefined: the server ends, or it serves what it finds.                 *)
(*                                                                         *)
(* The search and ordering modules keep nothing on disk; the requests of   *)
(* the latter are the subject of OrderingGraph.                            *)
(***************************************************************************)
EXTENDS Integers

CONSTANTS
  Infrastructures,  \* the directories of infrastructure_sources
  Timetables,       \* the directories of timetable_sources
  Matches,          \* {<<i, t>>}: t requires the version of infrastructure i
  MaxTime           \* bound: the last instant at which anything is written

ASSUME MatchesAssumption == Matches \subseteq Infrastructures \X Timetables
ASSUME MaxTimeAssumption == MaxTime \in Nat

VARIABLES
  now,             \* the time of the file system
  source,          \* directory -> its version and its last write time
  disk,            \* <<kind, name>> -> the file of the server resources
  stage,           \* what the server is doing
  regenerate,      \* the flag --regenerate
  todo,            \* what is left to do in this stage
  writing,         \* the file that is being written, or none
  infrastructures, \* name -> version, for the infrastructures made so far
  tile_contexts,   \* name -> version of the tiles
  contexts         \* <<infrastructure, timetable>> -> version

process_vars == <<stage, regenerate, todo, writing, infrastructures,
                  tile_contexts, contexts>>
vars == <<now, source, disk, process_vars>>

Files == ({"infrastructure", "osm", "tiles"} \X Infrastructures)
           \cup ({"timetable"} \X Timetables)

Missing == [exists |-> FALSE, time |-> 0, version |-> 0, whole |-> FALSE]
NoWrite == <<>>
Corrupt == 0  \* the version of what is read from a file that is not whole

\* The maps of the modules keep an entry they have.
emplace(map, key, value) ==
  [k \in DOMAIN map \cup {key} |-> IF k \in DOMAIN map THEN map[k] ELSE value]

-----------------------------------------------------------------------------
(***************************************************************************)
(* The disk.                                                               *)
(***************************************************************************)
raw_is_current(kind, n, all) ==
  /\ ~all
  /\ disk[<<kind, n>>].exists
  /\ disk[<<kind, n>>].time >= source[n].time

\* The names, and where they are read from: the raw file or the source.
todo_list(kind, names, all) ==
  {<<n, IF raw_is_current(kind, n, all) THEN "raw" ELSE "source">> : n \in names}

begin_write(file, version) ==
  /\ disk' = [disk EXCEPT ![file] = [exists |-> TRUE, time |-> now,
                                     version |-> version, whole |-> FALSE]]
  /\ writing' = file

finish_write ==
  /\ writing # NoWrite
  /\ disk' = [disk EXCEPT ![writing].time = now, ![writing].whole = TRUE]
  /\ writing' = NoWrite
  /\ UNCHANGED <<now, source, stage, regenerate, todo, infrastructures,
                 tile_contexts, contexts>>

content(file) == IF disk[file].whole THEN disk[file].version ELSE Corrupt

-----------------------------------------------------------------------------
(***************************************************************************)
(* The steps of a start: infrastructures, tiles, timetables.               *)
(***************************************************************************)
Idle == writing = NoWrite

start ==
  /\ stage = "down"
  /\ regenerate' \in BOOLEAN
  /\ todo' = todo_list("infrastructure", Infrastructures, regenerate')
  /\ stage' = "infrastructures"
  /\ UNCHANGED <<now, source, disk, writing, infrastructures, tile_contexts,
                 contexts>>

get_infrastructure(n) ==
  /\ stage = "infrastructures" /\ Idle
  /\ \E from \in {"raw", "source"} :
       /\ <<n, from>> \in todo
       /\ todo' = todo \ {<<n, from>>}
       /\ IF from = "source"
          THEN /\ infrastructures' = emplace(infrastructures, n, source[n].version)
               /\ begin_write(<<"infrastructure", n>>, source[n].version)
          ELSE /\ infrastructures' =
                    emplace(infrastructures, n, content(<<"infrastructure", n>>))
               /\ UNCHANGED <<disk, writing>>
  /\ UNCHANGED <<now, source, stage, regenerate, tile_contexts, contexts>>

start_tiles ==
  /\ stage = "infrastructures" /\ Idle /\ todo = {}
  /\ todo' = {"osm"} \X DOMAIN infrastructures
  /\ stage' = "tiles"
  /\ UNCHANGED <<now, source, disk, regenerate, writing, infrastructures,
                 tile_contexts, contexts>>

create_osm_file(n) ==
  /\ stage = "tiles" /\ Idle /\ <<"osm", n>> \in todo
  /\ todo' = (todo \ {<<"osm", n>>}) \cup {<<"tiles", n>>}
  /\ IF regenerate \/ ~disk[<<"osm", n>>].exists
     THEN begin_write(<<"osm", n>>, infrastructures[n])
     ELSE UNCHANGED <<disk, writing>>
  /\ UNCHANGED <<now, source, stage, regenerate, infrastructures,
                 tile_contexts, contexts>>

\* A mutant of tiles_outdated: --regenerate is forgotten.
tiles_outdated_by_time(n) ==
  \/ ~disk[<<"tiles", n>>].exists
  \/ disk[<<"osm", n>>].time > disk[<<"tiles", n>>].time

tiles_outdated(n) ==
  \/ regenerate
  \/ ~disk[<<"tiles", n>>].exists
  \/ disk[<<"osm", n>>].time > disk[<<"tiles", n>>].time

create_tiles_db(n) ==
  /\ stage = "tiles" /\ Idle /\ <<"tiles", n>> \in todo
  /\ todo' = (todo \ {<<"tiles", n>>}) \cup {<<"open", n>>}
  /\ IF tiles_outdated(n)
     THEN begin_write(<<"tiles", n>>, content(<<"osm", n>>))
     ELSE UNCHANGED <<disk, writing>>
  /\ UNCHANGED <<now, source, stage, regenerate, infrastructures,
                 tile_contexts, contexts>>

open_tiles_db(n) ==
  /\ stage = "tiles" /\ Idle /\ <<"open", n>> \in todo
  /\ todo' = todo \ {<<"open", n>>}
  /\ tile_contexts' = emplace(tile_contexts, n, content(<<"tiles", n>>))
  /\ UNCHANGED <<now, source, disk, stage, regenerate, writing,
                 infrastructures, contexts>>

start_timetables ==
  /\ stage = "tiles" /\ Idle /\ todo = {}
  /\ todo' = (DOMAIN infrastructures) \X todo_list("timetable", Timetables, regenerate)
  /\ stage' = "timetables"
  /\ UNCHANGED <<now, source, disk, regenerate, writing, infrastructures,
                 tile_contexts, contexts>>

(***************************************************************************)
(* try_parsing_timetable knows directories only: a raw file is of no known *)
(* source type, and the timetable is passed over.                          *)
(***************************************************************************)
parsed(i, t, from) == from = "source" /\ <<i, t>> \in Matches

get_timetable(i, t) ==
  /\ stage = "timetables" /\ Idle
  /\ \E from \in {"raw", "source"} :
       /\ <<i, <<t, from>>>> \in todo
       /\ todo' = todo \ {<<i, <<t, from>>>>}
       /\ IF parsed(i, t, from)
          THEN /\ contexts' = emplace(contexts, <<i, t>>, source[t].version)
               /\ begin_write(<<"timetable", t>>, source[t].version)
          ELSE UNCHANGED <<contexts, disk, writing>>
  /\ UNCHANGED <<now, source, stage, regenerate, infrastructures,
                 tile_contexts>>

run ==
  /\ stage = "timetables" /\ Idle /\ todo = {}
  /\ stage' = "serving"
  /\ UNCHANGED <<now, source, disk, regenerate, todo, writing,
                 infrastructures, tile_contexts, contexts>>

\* The server is stopped or killed, or ends by itself.
stop ==
  /\ stage # "down"
  /\ stage' = "down" /\ todo' = {} /\ writing' = NoWrite
  /\ infrastructures' = <<>> /\ tile_contexts' = <<>> /\ contexts' = <<>>
  /\ UNCHANGED <<now, source, disk, regenerate>>

-----------------------------------------------------------------------------
(***************************************************************************)
(* The environment: time passes, and sources change.                       *)
(***************************************************************************)
tick ==
  /\ now < MaxTime
  /\ now' = now + 1
  /\ UNCHANGED <<source, disk, process_vars>>

change_source(n) ==
  /\ source[n].time < now
  /\ source' = [source EXCEPT ![n] = [version |-> @.version + 1, time |-> now]]
  /\ UNCHANGED <<now, disk, process_vars>>

Init ==
  /\ now = 0
  /\ source = [n \in Infrastructures \cup Timetables |->
                 [version |-> 1, time |-> 0]]
  /\ disk = [file \in Files |-> Missing]
  /\ stage = "down" /\ regenerate = FALSE /\ todo = {} /\ writing = NoWrite
  /\ infrastructures = <<>> /\ tile_contexts = <<>> /\ contexts = <<>>

Next ==
  \/ start \/ start_tiles \/ start_timetables \/ run \/ stop \/ finish_write
  \/ \E n \in Infrastructures :
       \/ get_infrastructure(n) \/ create_osm_file(n) \/ create_tiles_db(n)
       \/ open_tiles_db(n)
  \/ \E i \in Infrastructures, t \in Timetables : get_timetable(i, t)
  \/ tick
  \/ \E n \in Infrastructures \cup Timetables : change_source(n)

Spec == Init /\ [][Next]_vars

-----------------------------------------------------------------------------
(***************************************************************************)
(* Once the server is running, every timetable can be asked for with the   *)
(* infrastructure it belongs to, whether it has been parsed in this start  *)
(* or saved by an earlier one, which may have been killed while it saved   *)
(* it (timetable_module.cc:48; the tests start the server twice,           *)
(* .github/actions/test/action.yml:26).                                    *)
(***************************************************************************)
CutOff(file) == disk[file].exists /\ ~disk[file].whole

TimetablesServed ==
  stage = "serving" =>
    \A m \in Matches : m \in DOMAIN contexts \/ CutOff(<<"timetable", m[2]>>)

(***************************************************************************)
(* A start with --regenerate recovers from whatever the starts before it   *)
(* have left behind, wherever they were killed and whatever has changed    *)
(* since: nothing is read from a file that is not whole, the tiles show    *)
(* the infrastructure that is served, all timetables are there, and no     *)
(* file is left cut off (infrastructure_module.cc:45, tiles_module.cc:58   *)
(* and :72, timetable_module.cc:48).                                       *)
(***************************************************************************)
RegenerateRecovers ==
  stage = "serving" /\ regenerate =>
    /\ \A n \in Infrastructures :
         /\ infrastructures[n] # Corrupt
         /\ tile_contexts[n] = infrastructures[n]
    /\ DOMAIN contexts = Matches
    /\ \A i \in Infrastructures : \A kind \in {"infrastructure", "osm", "tiles"} :
         ~CutOff(<<kind, i>>)
=============================================================================
