------------------------------ MODULE LightSense ------------------------------
(***************************************************************************)
(* The page of the light sensors' curves.                                  *)
(*                                                                         *)
(* The settings are loaded when the page opens and after a save.  An       *)
(* effect on the settings and the selected sensor puts that sensor's       *)
(* points in the editor, whatever was edited before.  A save sends the     *)
(* points for the sensor selected at that time, and ends the editing after *)
(* it has loaded the settings again.  The chart is edited at any time.     *)
(***************************************************************************)
EXTENDS Naturals

CONSTANTS Sensors,
          None,        \* no sensor selected, nothing loaded
          MaxChanges,  \* bound on changes of the points
          MaxSaves,    \* bound on saves
          MaxRefusals  \* bound on requests that fail

VARIABLES stored,         \* the server's curves
          settings,
          selectedSensor,
          points,         \* the curve in the editor
          isEditing,
          loads,          \* loadSettings under way: the settings, once served
          saves,          \* handleSave under way
          sensorData,     \* what loadSensorData got
          changes, saved, refusals

vars == <<stored, settings, selectedSensor, points, isEditing, loads, saves,
          sensorData, changes, saved, refusals>>
counts == <<changes, saved, refusals>>

-----------------------------------------------------------------------------
\* A curve: the sensor whose points it was made from, and its last change.
Curves   == [of : Sensors, rev : 0..MaxChanges]
Settings == [Sensors -> Curves]

LightSenseAssumption ==
    {MaxChanges, MaxSaves, MaxRefusals} \subseteq Nat /\ None \notin Curves

Loads == [id : 0..MaxSaves, got : Settings \cup {None}]
Saves == [id : 1..MaxSaves, sensor : Sensors, points : Curves,
          st : {"put", "stored", "reloading"}]

TypeOK ==
    /\ stored \in Settings /\ settings \in Settings \cup {None}
    /\ selectedSensor \in Sensors \cup {None}
    /\ (selectedSensor # None => settings # None)
    /\ points \in Curves \cup {None} /\ (points = None) = (selectedSensor = None)
    /\ isEditing \in BOOLEAN
    /\ loads \subseteq Loads /\ saves \subseteq Saves
    /\ sensorData \in {"known", None}
    /\ changes \in 0..MaxChanges /\ saved \in 0..MaxSaves /\ refusals \in 0..MaxRefusals

Init ==
    /\ stored = [s \in Sensors |-> [of |-> s, rev |-> 0]]
    /\ settings = None /\ selectedSensor = None /\ points = None /\ isEditing = FALSE
    /\ loads = {[id |-> 0, got |-> None]} /\ saves = {} /\ sensorData = None
    /\ changes = 0 /\ saved = 0 /\ refusals = 0

-----------------------------------------------------------------------------
\* Mutant: the effect does not depend on the selected sensor.
ShownForSettings(all, sensor) == IF all = settings /\ points # None THEN points
                                 ELSE IF sensor = None THEN None ELSE all[sensor]
\* The effect on selectedSensor and settings.
Shown(all, sensor) == IF sensor = None THEN None ELSE all[sensor]

SelectSensor(s) ==
    /\ settings # None /\ s # selectedSensor
    /\ selectedSensor' = s /\ points' = Shown(settings, s)
    /\ UNCHANGED <<stored, settings, isEditing, loads, saves, sensorData, counts>>

\* A point is added, deleted, typed in the list, or clicked or dragged in the
\* chart, which is there whether or not the page is editing.
ChangePoints ==
    /\ points # None /\ changes < MaxChanges /\ changes' = changes + 1
    /\ points' = [points EXCEPT !.rev = changes + 1]
    /\ UNCHANGED <<stored, settings, selectedSensor, isEditing, loads, saves,
                   sensorData, saved, refusals>>
\* Edit, and Cancel: the points stay as they were changed.
ToggleEditing ==
    /\ isEditing' = ~isEditing
    /\ UNCHANGED <<stored, settings, selectedSensor, points, loads, saves, sensorData, counts>>

-----------------------------------------------------------------------------
HandleSave ==
    /\ isEditing /\ selectedSensor # None /\ saved < MaxSaves /\ saved' = saved + 1
    /\ saves' = saves \cup {[id |-> saved + 1, sensor |-> selectedSensor,
                             points |-> points, st |-> "put"]}
    /\ UNCHANGED <<stored, settings, selectedSensor, points, isEditing, loads,
                   sensorData, changes, refusals>>
Becomes(a, st) == saves' = (saves \ {a}) \cup {[a EXCEPT !.st = st]}
Stored(a) ==
    /\ a.st = "put" /\ Becomes(a, "stored")
    /\ stored' = [stored EXCEPT ![a.sensor] = a.points]
    /\ UNCHANGED <<settings, selectedSensor, points, isEditing, loads, sensorData, counts>>
SaveFails(a) ==
    /\ a.st \in {"put", "stored"} /\ refusals < MaxRefusals /\ refusals' = refusals + 1
    /\ saves' = saves \ {a}
    /\ UNCHANGED <<stored, settings, selectedSensor, points, isEditing, loads,
                   sensorData, changes, saved>>
Reloads(a) ==
    /\ a.st = "stored" /\ Becomes(a, "reloading")
    /\ loads' = loads \cup {[id |-> a.id, got |-> None]}
    /\ UNCHANGED <<stored, settings, selectedSensor, points, isEditing, sensorData, counts>>

LoadServed(l) ==
    /\ l.got = None
    /\ loads' = (loads \ {l}) \cup {[l EXCEPT !.got = stored]}
    /\ UNCHANGED <<stored, settings, selectedSensor, points, isEditing, saves,
                   sensorData, counts>>
\* The save that waits for it ends the editing.
Awaits(l) == {a \in saves : a.id = l.id}
LoadLands(l) ==
    /\ l.got # None /\ loads' = loads \ {l}
    /\ settings' = l.got /\ points' = Shown(l.got, selectedSensor)
    /\ saves' = saves \ Awaits(l) /\ isEditing' = (isEditing /\ Awaits(l) = {})
    /\ UNCHANGED <<stored, selectedSensor, sensorData, counts>>
\* loadSettings catches it: its save goes on.
LoadFails(l) ==
    /\ l.got = None /\ refusals < MaxRefusals /\ refusals' = refusals + 1
    /\ loads' = loads \ {l}
    /\ saves' = saves \ Awaits(l) /\ isEditing' = (isEditing /\ Awaits(l) = {})
    /\ UNCHANGED <<stored, settings, selectedSensor, points, sensorData, changes, saved>>

\* The poll of the readings.
LoadSensorData ==
    /\ sensorData' = "known"
    /\ UNCHANGED <<stored, settings, selectedSensor, points, isEditing, loads, saves, counts>>

-----------------------------------------------------------------------------
Next == \/ \E s \in Sensors : SelectSensor(s)
        \/ ChangePoints \/ ToggleEditing \/ HandleSave \/ LoadSensorData
        \/ \E a \in saves : Stored(a) \/ SaveFails(a) \/ Reloads(a)
        \/ \E l \in loads : LoadServed(l) \/ LoadLands(l) \/ LoadFails(l)

Spec == Init /\ [][Next]_vars

-----------------------------------------------------------------------------
\* The points stored for a sensor were made from that sensor's, and so are
\* those in the editor, however selecting, saving and loading overlap.
PointsAreOwn == /\ \A s \in Sensors : stored[s].of = s
                /\ points # None => points.of = selectedSensor
=============================================================================
