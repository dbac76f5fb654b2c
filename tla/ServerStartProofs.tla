-------------------------- MODULE ServerStartProofs --------------------------
(***************************************************************************)
(* Theorems of ServerStart, for any infrastructures and timetables.        *)
(***************************************************************************)
EXTENDS ServerStart, TLAPS

Kinds  == {"infrastructure", "osm", "tiles"}
Stages == {"down", "infrastructures", "tiles", "timetables", "serving"}

FileStates == [exists : BOOLEAN, time : Nat, version : Nat, whole : BOOLEAN]

SourceStates == [Infrastructures \cup Timetables -> [version : Nat \ {0}, time : Nat]]

TypeInv ==
  /\ now \in Nat
  /\ source \in SourceStates
  /\ disk \in [Files -> FileStates]
  /\ stage \in Stages
  /\ regenerate \in BOOLEAN
  /\ writing \in Files \cup {NoWrite}
  /\ DOMAIN infrastructures \subseteq Infrastructures
  /\ \A n \in DOMAIN infrastructures : infrastructures[n] \in Nat
  /\ stage = "tiles" =>
       \A n \in Infrastructures : <<"osm", n>> \in todo => n \in DOMAIN infrastructures

\* The file holds what was made of the infrastructure that is served, or is
\* just being written with it.
Made(kind, n) ==
  /\ disk[<<kind, n>>].exists
  /\ disk[<<kind, n>>].version = infrastructures[n]
  /\ disk[<<kind, n>>].whole \/ writing = <<kind, n>>

\* A stage begins with what the stage before it has left, and the server is down
\* with nothing.
StageInv ==
  /\ stage = "down" => DOMAIN infrastructures = {}
  /\ stage \in {"down", "infrastructures"} => DOMAIN tile_contexts = {}
  /\ stage \notin {"timetables", "serving"} => DOMAIN contexts = {}
  /\ stage = "serving" => writing = NoWrite

InfrastructuresInv ==
  IF stage = "infrastructures"
  THEN /\ todo \subseteq Infrastructures \X {"source"}
       /\ DOMAIN infrastructures = {n \in Infrastructures : <<n, "source">> \notin todo}
  ELSE DOMAIN infrastructures = Infrastructures

ServedInv ==
  \A n \in DOMAIN infrastructures :
    infrastructures[n] # Corrupt /\ Made("infrastructure", n)

\* How far the tiles of an infrastructure are.
Waits(n) == \E k \in {"osm", "tiles", "open"} : <<k, n>> \in todo

TilesDone(n) ==
  /\ Made("osm", n) /\ Made("tiles", n)
  /\ n \in DOMAIN tile_contexts /\ tile_contexts[n] = infrastructures[n]

TilesOK(n) ==
  /\ Waits(n) => n \notin DOMAIN tile_contexts
  /\ <<"osm", n>> \in todo => <<"tiles", n>> \notin todo /\ <<"open", n>> \notin todo
  /\ <<"tiles", n>> \in todo => Made("osm", n) /\ <<"open", n>> \notin todo
  /\ <<"open", n>> \in todo => Made("osm", n) /\ Made("tiles", n)
  /\ ~Waits(n) => TilesDone(n)

TilesInv ==
  /\ stage = "tiles" => \A n \in Infrastructures : TilesOK(n)
  /\ stage \in {"timetables", "serving"} => \A n \in Infrastructures : TilesDone(n)

TimetablesInv ==
  /\ stage = "timetables" =>
       /\ todo \subseteq Infrastructures \X (Timetables \X {"source"})
       /\ DOMAIN contexts = {m \in Matches : <<m[1], <<m[2], "source">>>> \notin todo}
  /\ stage = "serving" => DOMAIN contexts = Matches

RegenerateInv ==
  regenerate /\ stage # "down" =>
    InfrastructuresInv /\ ServedInv /\ TilesInv /\ TimetablesInv

Inv == TypeInv /\ StageInv /\ RegenerateInv

-----------------------------------------------------------------------------
LEMMA FilesFacts ==
  /\ \A k \in Kinds, n \in Infrastructures : <<k, n>> \in Files
  /\ \A t \in Timetables : <<"timetable", t>> \in Files
  /\ NoWrite \notin Files
BY DEF Files, Kinds, NoWrite

LEMMA EmplaceFacts ==
  ASSUME NEW map, NEW key, NEW value
  PROVE  /\ DOMAIN emplace(map, key, value) = DOMAIN map \cup {key}
         /\ \A k \in DOMAIN map : emplace(map, key, value)[k] = map[k]
         /\ key \notin DOMAIN map => emplace(map, key, value)[key] = value
BY DEF emplace

\* Everything is made from its source, if all is to be.
LEMMA AllFromSource ==
  ASSUME NEW kind, NEW names
  PROVE  todo_list(kind, names, TRUE) = names \X {"source"}
<1>1. \A n \in names : ~raw_is_current(kind, n, TRUE)
  BY DEF raw_is_current
<1> DEFINE made == todo_list(kind, names, TRUE)
<1>2. \A x : x \in made <=> \E n \in names : x = <<n, "source">>
  BY <1>1 DEF todo_list
<1> HIDE DEF made
<1>3. made = names \X {"source"}
  BY <1>2
<1> QED BY <1>3 DEF made

LEMMA BeginWrite ==
  ASSUME TypeInv, NEW file \in Files, NEW version \in Nat, begin_write(file, version)
  PROVE  /\ disk' \in [Files -> FileStates] /\ writing' = file
         /\ disk'[file].exists /\ disk'[file].version = version
         /\ \A f \in Files : f # file => disk'[f] = disk[f]
<1> DEFINE new == [exists |-> TRUE, time |-> now, version |-> version, whole |-> FALSE]
<1>1. new \in FileStates /\ new.exists /\ new.version = version
  BY DEF TypeInv, FileStates
<1>2. disk' = [disk EXCEPT ![file] = new] /\ writing' = file
  BY DEF begin_write
<1> HIDE DEF new
<1> QED BY <1>1, <1>2 DEF TypeInv

LEMMA FinishWrite ==
  ASSUME TypeInv, finish_write
  PROVE  /\ disk' \in [Files -> FileStates] /\ writing' = NoWrite
         /\ \A f \in Files : /\ disk'[f].exists = disk[f].exists
                             /\ disk'[f].version = disk[f].version
                             /\ disk[f].whole \/ f = writing => disk'[f].whole
<1> DEFINE old == disk[writing]
           new == [old EXCEPT !.time = now, !.whole = TRUE]
<1>1. writing \in Files /\ writing' = NoWrite /\ old \in FileStates /\ now \in Nat
  BY DEF TypeInv, finish_write
<1>2. /\ new \in FileStates /\ new.exists = old.exists /\ new.version = old.version
      /\ new.whole
  <2> HIDE DEF old
  <2> QED BY <1>1 DEF FileStates
<1>3. disk' = [disk EXCEPT ![writing] = new]
  BY <1>1 DEF finish_write, TypeInv
<1> HIDE DEF new
<1>4. disk \in [Files -> FileStates]
  BY DEF TypeInv
<1>5. disk' \in [Files -> FileStates] /\ disk'[writing] = new
      /\ \A f \in Files : f # writing => disk'[f] = disk[f]
  BY <1>1, <1>2, <1>3, <1>4
<1> QED BY <1>1, <1>2, <1>5

\* What was made stays so while another file is begun, and the rest is whole.
LEMMA MadeStays ==
  ASSUME NEW file \in Files, Idle, writing' = file,
         \A f \in Files : f # file => disk'[f] = disk[f],
         NEW kind \in Kinds, NEW n \in Infrastructures, Made(kind, n),
         infrastructures'[n] = infrastructures[n], <<kind, n>> # file
  PROVE  Made(kind, n)'
<1>1. <<kind, n>> \in Files
  BY FilesFacts
<1>2. disk[<<kind, n>>].whole
  BY <1>1, FilesFacts DEF Made, Idle
<1> QED BY <1>1, <1>2 DEF Made

LEMMA MadeFinished ==
  ASSUME TypeInv, finish_write, NEW kind \in Kinds, NEW n \in Infrastructures, Made(kind, n)
  PROVE  Made(kind, n)'
<1>1. <<kind, n>> \in Files
  BY FilesFacts
<1>2. infrastructures' = infrastructures
  BY DEF finish_write
<1> QED BY <1>1, <1>2, FinishWrite DEF Made

\* Without a file being written, what was made can be read.
LEMMA MadeContent ==
  ASSUME Idle, NEW kind \in Kinds, NEW n \in Infrastructures, Made(kind, n)
  PROVE  /\ content(<<kind, n>>) = infrastructures[n]
         /\ ~CutOff(<<kind, n>>)
BY FilesFacts DEF Idle, Made, content, CutOff

-----------------------------------------------------------------------------
(***************************************************************************)
(* The infrastructures.                                                    *)
(***************************************************************************)
LEMMA StartInv ==
  ASSUME Inv, start
  PROVE  Inv'
<1>1. /\ stage = "down" /\ regenerate' \in BOOLEAN /\ stage' = "infrastructures"
      /\ todo' = todo_list("infrastructure", Infrastructures, regenerate')
      /\ UNCHANGED <<now, source, disk, writing, infrastructures, tile_contexts, contexts>>
  BY DEF start
<1>2. TypeInv'
  BY <1>1 DEF Inv, TypeInv, Stages
<1>3. StageInv'
  BY <1>1 DEF Inv, StageInv
<1>4. DOMAIN infrastructures = {}
  BY <1>1 DEF Inv, StageInv
<1>5. ASSUME regenerate' PROVE RegenerateInv'
  <2>1. regenerate' = TRUE
    BY <1>1, <1>5
  <2>2. todo' = Infrastructures \X {"source"}
    BY <1>1, <2>1, AllFromSource
  <2>3. InfrastructuresInv' /\ ServedInv'
    BY <1>1, <1>4, <2>2 DEF InfrastructuresInv, ServedInv
  <2>4. TilesInv' /\ TimetablesInv'
    BY <1>1 DEF TilesInv, TimetablesInv
  <2> QED BY <2>3, <2>4 DEF RegenerateInv
<1> QED BY <1>2, <1>3, <1>5 DEF Inv, RegenerateInv

LEMMA GetInfrastructureInv ==
  ASSUME Inv, NEW n \in Infrastructures, get_infrastructure(n)
  PROVE  Inv'
<1> DEFINE file == <<"infrastructure", n>>
<1>1. /\ stage = "infrastructures" /\ Idle
      /\ UNCHANGED <<now, source, stage, regenerate, tile_contexts, contexts>>
  BY DEF get_infrastructure
<1>2. PICK from \in {"raw", "source"} :
        /\ <<n, from>> \in todo /\ todo' = todo \ {<<n, from>>}
        /\ \/ /\ from = "source" /\ begin_write(file, source[n].version)
              /\ infrastructures' = emplace(infrastructures, n, source[n].version)
           \/ /\ from # "source" /\ UNCHANGED <<disk, writing>>
              /\ infrastructures' = emplace(infrastructures, n, content(file))
  BY DEF get_infrastructure
<1>3. file \in Files /\ file # NoWrite
  BY FilesFacts DEF Kinds
<1>4. source[n] \in [version : Nat \ {0}, time : Nat]
  BY DEF Inv, TypeInv, SourceStates
<1>5. source[n].version \in Nat \ {0} /\ content(file) \in Nat
  <2>1. disk[file] \in FileStates
    BY <1>3 DEF Inv, TypeInv
  <2>2. disk[file].version \in Nat
    BY <2>1 DEF FileStates
  <2> QED BY <1>4, <2>2 DEF content, Corrupt
<1> HIDE DEF file
<1>6. /\ DOMAIN infrastructures' = DOMAIN infrastructures \cup {n}
      /\ \A m \in DOMAIN infrastructures : infrastructures'[m] = infrastructures[m]
      /\ n \notin DOMAIN infrastructures => infrastructures'[n] \in Nat
  <2>1. PICK value \in Nat : infrastructures' = emplace(infrastructures, n, value)
    BY <1>2, <1>5
  <2>2. /\ DOMAIN emplace(infrastructures, n, value) = DOMAIN infrastructures \cup {n}
        /\ \A m \in DOMAIN infrastructures :
             emplace(infrastructures, n, value)[m] = infrastructures[m]
        /\ n \notin DOMAIN infrastructures => emplace(infrastructures, n, value)[n] = value
    BY EmplaceFacts
  <2> QED BY <2>1, <2>2
<1>7. disk' \in [Files -> FileStates] /\ writing' \in Files \cup {NoWrite}
  BY <1>2, <1>3, <1>5, BeginWrite DEF Inv, TypeInv
<1>8. TypeInv'
  <2>1. \A m \in DOMAIN infrastructures' : infrastructures'[m] \in Nat
    BY <1>6 DEF Inv, TypeInv
  <2>2. DOMAIN infrastructures' \subseteq Infrastructures
    BY <1>6 DEF Inv, TypeInv
  <2> QED BY <1>1, <1>7, <2>1, <2>2 DEF Inv, TypeInv
<1>9. StageInv'
  BY <1>1 DEF Inv, StageInv
<1>10. ASSUME regenerate PROVE RegenerateInv'
  <2>1. /\ todo \subseteq Infrastructures \X {"source"} /\ ServedInv
        /\ DOMAIN infrastructures = {m \in Infrastructures : <<m, "source">> \notin todo}
    BY <1>1, <1>10 DEF Inv, RegenerateInv, InfrastructuresInv
  <2>2. from = "source" /\ n \notin DOMAIN infrastructures
    BY <1>2, <2>1
  <2>3. /\ disk'[file].exists /\ disk'[file].version = source[n].version /\ writing' = file
        /\ \A f \in Files : f # file => disk'[f] = disk[f]
    BY <1>2, <1>3, <1>5, <2>2, BeginWrite DEF Inv
  <2>4. infrastructures'[n] = source[n].version
    BY <1>2, <2>2, EmplaceFacts
  <2>5. InfrastructuresInv'
    BY <1>1, <1>2, <1>6, <2>1, <2>2 DEF InfrastructuresInv
  <2>6. ASSUME NEW m \in DOMAIN infrastructures'
        PROVE  infrastructures'[m] # Corrupt /\ Made("infrastructure", m)'
    <3>1. CASE m = n
      BY <1>5, <2>3, <2>4, <3>1 DEF Made, Corrupt, file
    <3>2. CASE m # n
      <4>1. m \in DOMAIN infrastructures /\ m \in Infrastructures
        BY <1>6, <2>1, <3>2
      <4>2. infrastructures[m] # Corrupt /\ Made("infrastructure", m)
            /\ infrastructures'[m] = infrastructures[m]
        BY <1>6, <2>1, <4>1 DEF ServedInv
      <4>3. <<"infrastructure", m>> # file
        BY <3>2 DEF file
      <4>4. "infrastructure" \in Kinds
        BY DEF Kinds
      <4>5. Made("infrastructure", m)'
        BY <1>1, <1>3, <2>3, <4>1, <4>2, <4>3, <4>4, MadeStays
      <4> QED BY <4>2, <4>5
    <3> QED BY <3>1, <3>2
  <2>7. ServedInv'
    BY <2>6 DEF ServedInv
  <2>8. TilesInv' /\ TimetablesInv'
    BY <1>1 DEF TilesInv, TimetablesInv
  <2> QED BY <2>5, <2>7, <2>8 DEF RegenerateInv
<1> QED BY <1>1, <1>8, <1>9, <1>10 DEF Inv, RegenerateInv

-----------------------------------------------------------------------------
(***************************************************************************)
(* The tiles.                                                              *)
(***************************************************************************)
LEMMA StartTilesInv ==
  ASSUME Inv, start_tiles
  PROVE  Inv'
<1>1. /\ stage = "infrastructures" /\ Idle /\ todo = {} /\ stage' = "tiles"
      /\ todo' = {"osm"} \X DOMAIN infrastructures
      /\ UNCHANGED <<now, source, disk, regenerate, writing, infrastructures,
                     tile_contexts, contexts>>
  BY DEF start_tiles
<1>2. TypeInv'
  BY <1>1 DEF Inv, TypeInv, Stages
<1>3. StageInv' /\ DOMAIN tile_contexts = {}
  BY <1>1 DEF Inv, StageInv
<1>4. ASSUME regenerate PROVE RegenerateInv'
  <2>1. DOMAIN infrastructures = Infrastructures /\ ServedInv
    BY <1>1, <1>4 DEF Inv, RegenerateInv, InfrastructuresInv
  <2>2. InfrastructuresInv' /\ ServedInv' /\ TimetablesInv'
    BY <1>1, <2>1 DEF InfrastructuresInv, ServedInv, Made, TimetablesInv
  <2>3. TilesInv'
    BY <1>1, <1>3, <2>1 DEF TilesInv, TilesOK, Waits
  <2> QED BY <2>2, <2>3 DEF RegenerateInv
<1> QED BY <1>1, <1>2, <1>3, <1>4 DEF Inv, RegenerateInv

\* What a start with --regenerate knows while it makes tiles.
LEMMA TilesFacts ==
  ASSUME Inv, stage = "tiles", regenerate
  PROVE  /\ DOMAIN infrastructures = Infrastructures /\ ServedInv /\ TilesInv
         /\ \A n \in Infrastructures : Made("infrastructure", n)
BY DEF Inv, RegenerateInv, InfrastructuresInv, ServedInv

\* A file of tiles or for them is written for n; of the rest nothing changes.
LEMMA TilesWrite ==
  ASSUME Inv, stage = "tiles", regenerate, Idle, NEW kind \in {"osm", "tiles"},
         NEW n \in Infrastructures, begin_write(<<kind, n>>, infrastructures[n]),
         UNCHANGED <<stage, regenerate, infrastructures, tile_contexts, contexts>>
  PROVE  /\ Made(kind, n)' /\ InfrastructuresInv' /\ ServedInv' /\ TimetablesInv'
         /\ \A k \in Kinds, m \in Infrastructures :
              Made(k, m) /\ <<k, m>> # <<kind, n>> => Made(k, m)'
<1> DEFINE file == <<kind, n>>
<1>1. DOMAIN infrastructures = Infrastructures /\ ServedInv
  BY TilesFacts
<1>2. file \in Files /\ infrastructures[n] \in Nat
  BY <1>1, FilesFacts DEF Kinds, Inv, TypeInv
<1>3. /\ disk'[file].exists /\ disk'[file].version = infrastructures[n] /\ writing' = file
      /\ \A f \in Files : f # file => disk'[f] = disk[f]
  BY <1>2, BeginWrite DEF Inv
<1>4. Made(kind, n)'
  BY <1>3 DEF Made
<1>5. ASSUME NEW k \in Kinds, NEW m \in Infrastructures, Made(k, m), <<k, m>> # file
      PROVE  Made(k, m)'
  <2>1. infrastructures'[m] = infrastructures[m]
    OBVIOUS
  <2> HIDE DEF file
  <2> QED BY <1>2, <1>3, <1>5, <2>1, MadeStays
<1>6. ServedInv'
  <2> SUFFICES ASSUME NEW m \in Infrastructures
               PROVE  infrastructures[m] # Corrupt /\ Made("infrastructure", m)'
    BY <1>1 DEF ServedInv
  <2>1. infrastructures[m] # Corrupt /\ Made("infrastructure", m)
    BY <1>1 DEF ServedInv
  <2>2. "infrastructure" \in Kinds /\ <<"infrastructure", m>> # file
    BY DEF Kinds
  <2> QED BY <1>5, <2>1, <2>2
<1>7. InfrastructuresInv' /\ TimetablesInv'
  BY <1>1 DEF InfrastructuresInv, TimetablesInv
<1> QED BY <1>4, <1>5, <1>6, <1>7

LEMMA CreateOsmInv ==
  ASSUME Inv, NEW n \in Infrastructures, create_osm_file(n)
  PROVE  Inv'
<1> DEFINE file == <<"osm", n>>
<1>1. /\ stage = "tiles" /\ Idle /\ <<"osm", n>> \in todo
      /\ todo' = (todo \ {<<"osm", n>>}) \cup {<<"tiles", n>>}
      /\ \/ begin_write(file, infrastructures[n])
         \/ ~regenerate /\ UNCHANGED <<disk, writing>>
      /\ UNCHANGED <<now, source, stage, regenerate, infrastructures, tile_contexts, contexts>>
  BY DEF create_osm_file
<1>2. file \in Files /\ infrastructures[n] \in Nat
  BY <1>1, FilesFacts DEF Kinds, Inv, TypeInv
<1>3. disk' \in [Files -> FileStates] /\ writing' \in Files \cup {NoWrite}
  <2> HIDE DEF file
  <2> QED BY <1>1, <1>2, BeginWrite DEF Inv, TypeInv
<1>4. TypeInv'
  BY <1>1, <1>3 DEF Inv, TypeInv
<1>5. StageInv'
  BY <1>1 DEF Inv, StageInv
<1>6. ASSUME regenerate PROVE RegenerateInv'
  <2>1. TilesInv
    BY <1>1, <1>6, TilesFacts
  <2>2. /\ Made("osm", n)' /\ InfrastructuresInv' /\ ServedInv' /\ TimetablesInv'
        /\ \A k \in Kinds, m \in Infrastructures :
             Made(k, m) /\ <<k, m>> # <<"osm", n>> => Made(k, m)'
    BY <1>1, <1>6, TilesWrite
  <2>3. ASSUME NEW m \in Infrastructures, m # n
        PROVE  (Made("osm", m) => Made("osm", m)') /\ (Made("tiles", m) => Made("tiles", m)')
    BY <2>2, <2>3 DEF Kinds
  <2>4. TilesInv'
    <3> SUFFICES ASSUME NEW m \in Infrastructures PROVE TilesOK(m)'
      BY <1>1 DEF TilesInv
    <3>1. CASE m = n
      BY <1>1, <2>1, <2>2, <3>1 DEF TilesInv, TilesOK, Waits
    <3>2. CASE m # n
      <4>1. \A k : <<k, m>> \in todo' <=> <<k, m>> \in todo
        BY <1>1, <3>2
      <4>2. Waits(m)' <=> Waits(m)
        BY <4>1 DEF Waits
      <4>3. TilesDone(m) => TilesDone(m)'
        BY <1>1, <2>3, <3>2 DEF TilesDone
      <4> QED BY <1>1, <2>1, <2>3, <3>2, <4>1, <4>2, <4>3 DEF TilesInv, TilesOK
    <3> QED BY <3>1, <3>2
  <2> QED BY <2>2, <2>4 DEF RegenerateInv
<1> QED BY <1>1, <1>4, <1>5, <1>6 DEF Inv, RegenerateInv

LEMMA CreateTilesInv ==
  ASSUME Inv, NEW n \in Infrastructures, create_tiles_db(n)
  PROVE  Inv'
<1> DEFINE file == <<"tiles", n>>
<1>1. /\ stage = "tiles" /\ Idle /\ <<"tiles", n>> \in todo
      /\ todo' = (todo \ {<<"tiles", n>>}) \cup {<<"open", n>>}
      /\ \/ begin_write(file, content(<<"osm", n>>))
         \/ ~regenerate /\ UNCHANGED <<disk, writing>>
      /\ UNCHANGED <<now, source, stage, regenerate, infrastructures, tile_contexts, contexts>>
  BY DEF create_tiles_db, tiles_outdated
<1>2. file \in Files /\ content(<<"osm", n>>) \in Nat
  <2>1. file \in Files /\ <<"osm", n>> \in Files
    BY FilesFacts DEF Kinds
  <2>2. disk[<<"osm", n>>] \in FileStates
    BY <2>1 DEF Inv, TypeInv
  <2>3. disk[<<"osm", n>>].version \in Nat
    BY <2>2 DEF FileStates
  <2> QED BY <2>1, <2>3 DEF content, Corrupt
<1>3. disk' \in [Files -> FileStates] /\ writing' \in Files \cup {NoWrite}
  <2> HIDE DEF file
  <2> QED BY <1>1, <1>2, BeginWrite DEF Inv, TypeInv
<1>4. TypeInv'
  BY <1>1, <1>3 DEF Inv, TypeInv
<1>5. StageInv'
  BY <1>1 DEF Inv, StageInv
<1>6. ASSUME regenerate PROVE RegenerateInv'
  <2>1. TilesInv
    BY <1>1, <1>6, TilesFacts
  <2>2. Made("osm", n)
    BY <1>1, <2>1 DEF TilesInv, TilesOK
  <2>3. content(<<"osm", n>>) = infrastructures[n]
    BY <1>1, <2>2, MadeContent DEF Kinds
  <2>4. /\ Made("tiles", n)' /\ InfrastructuresInv' /\ ServedInv' /\ TimetablesInv'
        /\ \A k \in Kinds, m \in Infrastructures :
             Made(k, m) /\ <<k, m>> # <<"tiles", n>> => Made(k, m)'
    BY <1>1, <1>6, <2>3, TilesWrite
  <2>5. /\ \A m \in Infrastructures : Made("osm", m) => Made("osm", m)'
        /\ \A m \in Infrastructures : m # n /\ Made("tiles", m) => Made("tiles", m)'
    BY <2>4 DEF Kinds
  <2>6. TilesInv'
    <3> SUFFICES ASSUME NEW m \in Infrastructures PROVE TilesOK(m)'
      BY <1>1 DEF TilesInv
    <3>1. CASE m = n
      BY <1>1, <2>1, <2>2, <2>4, <2>5, <3>1 DEF TilesInv, TilesOK, Waits
    <3>2. CASE m # n
      <4>1. \A k : <<k, m>> \in todo' <=> <<k, m>> \in todo
        BY <1>1, <3>2
      <4>2. Waits(m)' <=> Waits(m)
        BY <4>1 DEF Waits
      <4>3. TilesDone(m) => TilesDone(m)'
        BY <1>1, <2>5, <3>2 DEF TilesDone
      <4> QED BY <1>1, <2>1, <2>5, <3>2, <4>1, <4>2, <4>3 DEF TilesInv, TilesOK
    <3> QED BY <3>1, <3>2
  <2> QED BY <2>4, <2>6 DEF RegenerateInv
<1> QED BY <1>1, <1>4, <1>5, <1>6 DEF Inv, RegenerateInv

LEMMA OpenTilesInv ==
  ASSUME Inv, NEW n \in Infrastructures, open_tiles_db(n)
  PROVE  Inv'
<1>1. /\ stage = "tiles" /\ Idle /\ <<"open", n>> \in todo
      /\ todo' = todo \ {<<"open", n>>}
      /\ tile_contexts' = emplace(tile_contexts, n, content(<<"tiles", n>>))
      /\ UNCHANGED <<now, source, disk, stage, regenerate, writing, infrastructures, contexts>>
  BY DEF open_tiles_db
<1>2. TypeInv'
  BY <1>1 DEF Inv, TypeInv
<1>3. StageInv'
  BY <1>1 DEF Inv, StageInv
<1>4. ASSUME regenerate PROVE RegenerateInv'
  <2>1. DOMAIN infrastructures = Infrastructures /\ ServedInv /\ TilesInv
    BY <1>1, <1>4, TilesFacts
  <2>2. InfrastructuresInv' /\ ServedInv' /\ TimetablesInv'
    BY <1>1, <2>1 DEF InfrastructuresInv, ServedInv, Made, TimetablesInv
  <2>3. Made("osm", n) /\ Made("tiles", n) /\ n \notin DOMAIN tile_contexts
        /\ <<"osm", n>> \notin todo /\ <<"tiles", n>> \notin todo
    BY <1>1, <2>1 DEF TilesInv, TilesOK, Waits
  <2>4. content(<<"tiles", n>>) = infrastructures[n]
    BY <1>1, <2>3, MadeContent DEF Kinds
  <2>5. /\ DOMAIN tile_contexts' = DOMAIN tile_contexts \cup {n}
        /\ \A m \in DOMAIN tile_contexts : tile_contexts'[m] = tile_contexts[m]
        /\ tile_contexts'[n] = infrastructures[n]
    BY <1>1, <2>3, <2>4, EmplaceFacts
  <2>6. \A k, m : Made(k, m)' <=> Made(k, m)
    BY <1>1 DEF Made
  <2>7. TilesInv'
    <3> SUFFICES ASSUME NEW m \in Infrastructures PROVE TilesOK(m)'
      BY <1>1 DEF TilesInv
    <3>1. CASE m = n
      <4>1. ~Waits(m)'
        BY <1>1, <2>3, <3>1 DEF Waits
      <4>2. TilesDone(m)'
        BY <1>1, <2>3, <2>5, <2>6, <3>1 DEF TilesDone
      <4> QED BY <1>1, <2>3, <3>1, <4>1, <4>2 DEF TilesOK
    <3>2. CASE m # n
      <4>1. \A k : <<k, m>> \in todo' <=> <<k, m>> \in todo
        BY <1>1, <3>2
      <4>2. Waits(m)' <=> Waits(m)
        BY <4>1 DEF Waits
      <4>3. TilesDone(m) => TilesDone(m)'
        BY <1>1, <2>5, <2>6, <3>2 DEF TilesDone
      <4> QED BY <1>1, <2>1, <2>5, <2>6, <3>2, <4>1, <4>2, <4>3 DEF TilesInv, TilesOK
    <3> QED BY <3>1, <3>2
  <2> QED BY <2>2, <2>7 DEF RegenerateInv
<1> QED BY <1>1, <1>2, <1>3, <1>4 DEF Inv, RegenerateInv

-----------------------------------------------------------------------------
(***************************************************************************)
(* The timetables, and the server that runs.                               *)
(***************************************************************************)
LEMMA StartTimetablesInv ==
  ASSUME Inv, start_timetables
  PROVE  Inv'
<1>1. /\ stage = "tiles" /\ Idle /\ todo = {} /\ stage' = "timetables"
      /\ todo' = (DOMAIN infrastructures) \X todo_list("timetable", Timetables, regenerate)
      /\ UNCHANGED <<now, source, disk, regenerate, writing, infrastructures,
                     tile_contexts, contexts>>
  BY DEF start_timetables
<1>2. TypeInv'
  BY <1>1 DEF Inv, TypeInv, Stages
<1>3. StageInv' /\ DOMAIN contexts = {}
  BY <1>1 DEF Inv, StageInv
<1>4. ASSUME regenerate PROVE RegenerateInv'
  <2>1. DOMAIN infrastructures = Infrastructures /\ ServedInv /\ TilesInv
    BY <1>1, <1>4, TilesFacts
  <2>2. InfrastructuresInv' /\ ServedInv'
    BY <1>1, <2>1 DEF InfrastructuresInv, ServedInv, Made
  <2>3. \A n \in Infrastructures : TilesDone(n)
    BY <1>1, <2>1 DEF TilesInv, TilesOK, Waits
  <2>4. TilesInv'
    BY <1>1, <2>3 DEF TilesInv, TilesDone, Made
  <2>5. regenerate = TRUE
    BY <1>4 DEF Inv, TypeInv
  <2>6. todo' = Infrastructures \X (Timetables \X {"source"})
    BY <1>1, <2>1, <2>5, AllFromSource
  <2>7. \A m \in Matches : <<m[1], <<m[2], "source">>>> \in todo'
    BY <2>6, MatchesAssumption
  <2>8. TimetablesInv'
    BY <1>1, <1>3, <2>6, <2>7 DEF TimetablesInv
  <2> QED BY <2>2, <2>4, <2>8 DEF RegenerateInv
<1> QED BY <1>1, <1>2, <1>3, <1>4 DEF Inv, RegenerateInv

LEMMA GetTimetableInv ==
  ASSUME Inv, NEW i \in Infrastructures, NEW t \in Timetables, get_timetable(i, t)
  PROVE  Inv'
<1> DEFINE file == <<"timetable", t>>
           key == <<i, t>>
<1>1. /\ stage = "timetables" /\ Idle
      /\ UNCHANGED <<now, source, stage, regenerate, infrastructures, tile_contexts>>
  BY DEF get_timetable
<1>2. PICK from \in {"raw", "source"} :
        /\ <<i, <<t, from>>>> \in todo /\ todo' = todo \ {<<i, <<t, from>>>>}
        /\ \/ /\ from = "source" /\ key \in Matches
              /\ contexts' = emplace(contexts, key, source[t].version)
              /\ begin_write(file, source[t].version)
           \/ /\ ~(from = "source" /\ key \in Matches)
              /\ UNCHANGED <<contexts, disk, writing>>
  BY DEF get_timetable, parsed
<1>3. file \in Files
  BY FilesFacts
<1>4. source[t].version \in Nat
  <2>1. source[t] \in [version : Nat \ {0}, time : Nat]
    BY DEF Inv, TypeInv, SourceStates
  <2> QED BY <2>1
<1> HIDE DEF file, key
<1>5. /\ disk' \in [Files -> FileStates] /\ writing' \in Files \cup {NoWrite}
      /\ \/ UNCHANGED <<disk, writing>>
         \/ writing' = file /\ \A f \in Files : f # file => disk'[f] = disk[f]
  BY <1>2, <1>3, <1>4, BeginWrite DEF Inv, TypeInv
<1>6. TypeInv'
  BY <1>1, <1>5 DEF Inv, TypeInv
<1>7. StageInv'
  BY <1>1 DEF Inv, StageInv
<1>8. ASSUME regenerate PROVE RegenerateInv'
  <2>1. /\ DOMAIN infrastructures = Infrastructures /\ ServedInv
        /\ \A n \in Infrastructures : TilesDone(n)
        /\ todo \subseteq Infrastructures \X (Timetables \X {"source"})
        /\ DOMAIN contexts = {m \in Matches : <<m[1], <<m[2], "source">>>> \notin todo}
    BY <1>1, <1>8 DEF Inv, RegenerateInv, InfrastructuresInv, TilesInv, TimetablesInv
  <2>2. ASSUME NEW k \in Kinds, NEW n \in Infrastructures, Made(k, n) PROVE Made(k, n)'
    <3>1. CASE UNCHANGED <<disk, writing>>
      BY <1>1, <2>2, <3>1 DEF Made
    <3>2. CASE writing' = file /\ \A f \in Files : f # file => disk'[f] = disk[f]
      <4>1. <<k, n>> # file
        BY DEF Kinds, file
      <4> QED BY <1>1, <1>3, <2>2, <3>2, <4>1, MadeStays
    <3> QED BY <1>5, <3>1, <3>2
  <2>3. InfrastructuresInv'
    BY <1>1, <2>1 DEF InfrastructuresInv
  <2>4. ServedInv'
    BY <1>1, <2>1, <2>2 DEF ServedInv, Kinds
  <2>5. TilesInv'
    BY <1>1, <2>1, <2>2 DEF TilesInv, TilesDone, Kinds
  <2>6. from = "source"
    BY <1>2, <2>1
  <2>7. DOMAIN contexts' = DOMAIN contexts \cup ({key} \cap Matches)
    <3>1. CASE key \in Matches
      <4>1. contexts' = emplace(contexts, key, source[t].version)
        BY <1>2, <2>6, <3>1
      <4>2. DOMAIN contexts' = DOMAIN contexts \cup {key}
        BY <4>1, EmplaceFacts
      <4> QED BY <3>1, <4>2
    <3>2. CASE key \notin Matches
      BY <1>2, <2>6, <3>2
    <3> QED BY <3>1, <3>2
  <2>8. ASSUME NEW m \in Matches
        PROVE  <<m[1], <<m[2], "source">>>> \notin todo' <=>
                 <<m[1], <<m[2], "source">>>> \notin todo \/ m = key
    <3>1. m = <<m[1], m[2]>>
      BY MatchesAssumption
    <3>2. m = key <=> m[1] = i /\ m[2] = t
      BY <3>1 DEF key
    <3>3. <<m[1], <<m[2], "source">>>> = <<i, <<t, "source">>>> <=> m[1] = i /\ m[2] = t
      OBVIOUS
    <3> QED BY <1>2, <2>6, <3>2, <3>3
  <2>9. TimetablesInv'
    BY <1>1, <1>2, <2>1, <2>7, <2>8 DEF TimetablesInv
  <2> QED BY <2>3, <2>4, <2>5, <2>9 DEF RegenerateInv
<1> QED BY <1>1, <1>6, <1>7, <1>8 DEF Inv, RegenerateInv

LEMMA RunInv ==
  ASSUME Inv, run
  PROVE  Inv'
<1>1. /\ stage = "timetables" /\ Idle /\ todo = {} /\ stage' = "serving"
      /\ UNCHANGED <<now, source, disk, regenerate, todo, writing, infrastructures,
                     tile_contexts, contexts>>
  BY DEF run
<1>2. TypeInv'
  BY <1>1 DEF Inv, TypeInv, Stages
<1>3. StageInv'
  BY <1>1 DEF Inv, StageInv, Idle
<1>4. ASSUME regenerate PROVE RegenerateInv'
  <2>1. InfrastructuresInv /\ ServedInv /\ TilesInv /\ TimetablesInv
    BY <1>1, <1>4 DEF Inv, RegenerateInv
  <2>2. InfrastructuresInv' /\ ServedInv' /\ TilesInv'
    BY <1>1, <2>1 DEF InfrastructuresInv, ServedInv, TilesInv, TilesDone, Made
  <2>3. TimetablesInv'
    BY <1>1, <2>1 DEF TimetablesInv
  <2> QED BY <2>2, <2>3 DEF RegenerateInv
<1> QED BY <1>1, <1>2, <1>3, <1>4 DEF Inv, RegenerateInv

-----------------------------------------------------------------------------
(***************************************************************************)
(* At any stage: a file is complete, the server ends, sources change.      *)
(***************************************************************************)
LEMMA FinishWriteInv ==
  ASSUME Inv, finish_write
  PROVE  Inv'
<1>1. UNCHANGED <<now, source, stage, regenerate, todo, infrastructures,
                  tile_contexts, contexts>>
  BY DEF finish_write
<1>2. TypeInv'
  <2>1. disk' \in [Files -> FileStates] /\ writing' = NoWrite
    BY FinishWrite DEF Inv
  <2> QED BY <1>1, <2>1 DEF Inv, TypeInv
<1>3. StageInv'
  BY <1>1, FinishWrite DEF Inv, StageInv
<1>4. ASSUME regenerate, stage # "down" PROVE RegenerateInv'
  <2>1. InfrastructuresInv /\ ServedInv /\ TilesInv /\ TimetablesInv
    BY <1>4 DEF Inv, RegenerateInv
  <2>2. \A k \in Kinds, n \in Infrastructures : Made(k, n) => Made(k, n)'
    BY MadeFinished DEF Inv
  <2>3. InfrastructuresInv' /\ TimetablesInv'
    BY <1>1, <2>1 DEF InfrastructuresInv, TimetablesInv
  <2>4. ServedInv'
    BY <1>1, <2>1, <2>2 DEF ServedInv, Kinds, Inv, TypeInv
  <2>5. \A n \in Infrastructures : TilesDone(n) => TilesDone(n)'
    BY <1>1, <2>2 DEF TilesDone, Kinds
  <2>6. \A n \in Infrastructures : Waits(n)' <=> Waits(n)
    BY <1>1 DEF Waits
  <2>7. TilesInv'
    BY <1>1, <2>1, <2>2, <2>5, <2>6 DEF TilesInv, TilesOK, Kinds
  <2> QED BY <2>3, <2>4, <2>7 DEF RegenerateInv
<1> QED BY <1>1, <1>2, <1>3, <1>4 DEF Inv, RegenerateInv

LEMMA StopInv ==
  ASSUME Inv, stop
  PROVE  Inv'
<1>1. /\ stage' = "down" /\ todo' = {} /\ writing' = NoWrite
      /\ infrastructures' = <<>> /\ tile_contexts' = <<>> /\ contexts' = <<>>
      /\ UNCHANGED <<now, source, disk, regenerate>>
  BY DEF stop
<1>2. DOMAIN <<>> = {}
  OBVIOUS
<1>3. TypeInv'
  BY <1>1, <1>2 DEF Inv, TypeInv, Stages
<1>4. StageInv'
  BY <1>1, <1>2 DEF StageInv
<1> QED BY <1>1, <1>3, <1>4 DEF Inv, RegenerateInv

LEMMA EnvironmentInv ==
  ASSUME Inv, \/ tick
              \/ \E n \in Infrastructures \cup Timetables : change_source(n)
              \/ UNCHANGED vars
  PROVE  Inv'
<1>1. UNCHANGED <<disk, process_vars>>
  BY DEF tick, change_source, vars
<1>2. UNCHANGED <<disk, stage, regenerate, todo, writing, infrastructures,
                  tile_contexts, contexts>>
  BY <1>1 DEF process_vars
<1>3. now' \in Nat /\ source' \in SourceStates
  <2>1. now \in Nat /\ source \in SourceStates
    BY DEF Inv, TypeInv
  <2>2. CASE tick
    BY <2>1, <2>2 DEF tick
  <2>3. ASSUME NEW n \in Infrastructures \cup Timetables, change_source(n)
        PROVE  now' \in Nat /\ source' \in SourceStates
    <3> DEFINE new == [version |-> source[n].version + 1, time |-> now]
    <3>1. source[n] \in [version : Nat \ {0}, time : Nat]
      BY <2>1 DEF SourceStates
    <3>2. source[n].version + 1 \in Nat \ {0}
      BY <3>1
    <3>3. new \in [version : Nat \ {0}, time : Nat]
      BY <2>1, <3>2
    <3>4. source' = [source EXCEPT ![n] = new] /\ now' = now
      BY <2>3 DEF change_source
    <3> HIDE DEF new
    <3> QED BY <2>1, <3>3, <3>4 DEF SourceStates
  <2>4. CASE UNCHANGED vars
    BY <2>1, <2>4 DEF vars
  <2> QED BY <2>2, <2>3, <2>4
<1>4. TypeInv'
  BY <1>2, <1>3 DEF Inv, TypeInv
<1>5. StageInv'
  BY <1>2 DEF Inv, StageInv
<1>6. RegenerateInv'
  BY <1>2 DEF Inv, RegenerateInv, InfrastructuresInv, ServedInv, TilesInv, TimetablesInv,
              TilesOK, TilesDone, Waits, Made
<1> QED BY <1>4, <1>5, <1>6 DEF Inv

LEMMA InitInv == Init => Inv
<1> SUFFICES ASSUME Init PROVE Inv
  OBVIOUS
<1>1. DOMAIN <<>> = {}
  OBVIOUS
<1>2. Missing \in FileStates
  BY DEF Missing, FileStates
<1>3. disk \in [Files -> FileStates]
  BY <1>2 DEF Init
<1>4. source \in SourceStates
  BY DEF Init, SourceStates
<1>5. TypeInv
  BY <1>1, <1>3, <1>4 DEF Init, TypeInv, Stages
<1>6. StageInv
  BY <1>1 DEF Init, StageInv
<1> QED BY <1>5, <1>6 DEF Init, Inv, RegenerateInv

LEMMA StepInv == Inv /\ [Next]_vars => Inv'
<1> SUFFICES ASSUME Inv, [Next]_vars PROVE Inv'
  OBVIOUS
<1>1. CASE start \/ start_tiles \/ start_timetables \/ run \/ stop \/ finish_write
  BY <1>1, StartInv, StartTilesInv, StartTimetablesInv, RunInv, StopInv, FinishWriteInv
<1>2. CASE \E n \in Infrastructures :
             \/ get_infrastructure(n) \/ create_osm_file(n) \/ create_tiles_db(n)
             \/ open_tiles_db(n)
  BY <1>2, GetInfrastructureInv, CreateOsmInv, CreateTilesInv, OpenTilesInv
<1>3. CASE \E i \in Infrastructures, t \in Timetables : get_timetable(i, t)
  BY <1>3, GetTimetableInv
<1>4. CASE \/ tick
           \/ \E n \in Infrastructures \cup Timetables : change_source(n)
           \/ UNCHANGED vars
  BY <1>4, EnvironmentInv
<1> QED BY <1>1, <1>2, <1>3, <1>4 DEF Next

\* While a start with --regenerate makes the infrastructures, the tiles and the
\* timetables, every file it is past holds what it serves, whatever files the starts
\* before it have left cut off (soro_server.cc:137).
THEOREM Invariant == Spec => []Inv
  BY InitInv, StepInv, PTL DEF Spec

\* A start with --regenerate recovers from any sequence of starts, killed anywhere,
\* and any changes of the sources (infrastructure_module.cc:45, tiles_module.cc:58
\* and :72, timetable_module.cc:53).
THEOREM RecoversRegenerated == Spec => []RegenerateRecovers
<1>1. Inv => RegenerateRecovers
  <2> SUFFICES ASSUME Inv, stage = "serving", regenerate PROVE RegenerateRecovers
    BY DEF RegenerateRecovers
  <2>1. InfrastructuresInv /\ ServedInv /\ TilesInv /\ TimetablesInv /\ Idle
    BY DEF Inv, RegenerateInv, StageInv, Idle
  <2>2. DOMAIN infrastructures = Infrastructures /\ DOMAIN contexts = Matches
    BY <2>1 DEF InfrastructuresInv, TimetablesInv
  <2>3. ASSUME NEW n \in Infrastructures
        PROVE  /\ infrastructures[n] # Corrupt /\ tile_contexts[n] = infrastructures[n]
               /\ \A kind \in {"infrastructure", "osm", "tiles"} : ~CutOff(<<kind, n>>)
    <3>1. infrastructures[n] # Corrupt /\ Made("infrastructure", n)
      BY <2>1, <2>2 DEF ServedInv
    <3>2. TilesDone(n)
      BY <2>1 DEF TilesInv
    <3>3. \A kind \in Kinds : Made(kind, n)
      BY <3>1, <3>2 DEF Kinds, TilesDone
    <3>4. \A kind \in Kinds : ~CutOff(<<kind, n>>)
      BY <2>1, <3>3, MadeContent
    <3> QED BY <3>1, <3>2, <3>4 DEF Kinds, TilesDone
  <2> QED BY <2>2, <2>3 DEF RegenerateRecovers
<1> QED BY <1>1, Invariant, PTL

=============================================================================
