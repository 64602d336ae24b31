------------------------- MODULE DesktopHotkeyProofs -------------------------
(***************************************************************************)
(* Proofs about the shortcut of DesktopHotkey and the settings it belongs  *)
(* to, for any number of listeners, keys and settings: which listener may  *)
(* go on, and that settings which are in effect are saved and grabbed.     *)
(***************************************************************************)
EXTENDS DesktopHotkey, TLAPS

-----------------------------------------------------------------------------
(* The inductive invariant.                                                  *)

\* Which listeners the GTK thread holds, by the place it is at.
Places ==
    /\ wayland => hotkeys = None /\ gtk.at \notin {"starting", "stopping", "unwinding"}
    /\ gtk.at = "boot" => hotkeys = None
    /\ gtk.at = "starting" => gtk.candidate \in Listeners /\ gtk.candidate # hotkeys
    /\ gtk.at \in {"stopping", "unwinding"} => gtk.candidate \in Listeners /\ hotkeys = gtk.candidate

GoesOn(l) == listener[l].thread \in {"opening", "listening"} /\ ~listener[l].stop

\* A listener that goes on is the current one, or the one that is being started; when the
\* start is taken back, none does.
NoGhost ==
    \A l \in Listeners : GoesOn(l) =>
        /\ l = hotkeys \/ (gtk.at = "starting" /\ l = gtk.candidate)
        /\ gtk.at # "unwinding"

\* The key the listener being started is for, and the key the current one is to hold.
Starting == IF gtk.doing = "confirm" THEN gtk.other.hotkey ELSE settings.hotkey
Wanted == IF gtk.at = "saving" \/ (gtk.at = "stopping" /\ gtk.doing = "confirm")
          THEN gtk.other.hotkey ELSE settings.hotkey

\* As long as nothing has befallen the files: the settings are in client.json, and in the
\* autostart directory but for the step between the two.  In that step the file is new in
\* any case.
FileKept ==
    /\ "file" \notin mishaps => /\ saved = settings
                                /\ gtk.at # "saved" => autostart = settings.login
    /\ gtk.at = "saved" => saved = settings

\* As long as nothing has befallen the key: the listener being started is for the right
\* key, and the current one holds the key that is wanted.
KeyHeld ==
    "key" \notin mishaps =>
        /\ gtk.at = "starting" =>
              /\ listener[gtk.candidate].thread \in {"none", "opening", "listening"}
              /\ listener[gtk.candidate].thread # "none" =>
                    ~listener[gtk.candidate].stop /\ listener[gtk.candidate].key = Starting
        /\ hotkeys # None /\ ~(gtk.at = "starting" /\ gtk.doing = "rollback") =>
              /\ gtk.at # "unwinding"
              /\ binding = Wanted /\ listener[hotkeys].key = binding
              /\ listener[hotkeys].thread = "listening" /\ ~listener[hotkeys].stop

IInv == TypeOK /\ Places /\ NoGhost /\ FileKept /\ KeyHeld

-----------------------------------------------------------------------------
(* The types.                                                                *)

GtkTypes == [at : {"boot", "starting", "stopping", "unwinding", "saving", "saved", "rest"},
             doing : {"nothing", "boot", "confirm", "rollback"}, other : Settings,
             candidate : Listeners \cup {None}, previous : Listeners \cup {None},
             key : Keys \cup {None}]
ThreadTypes == [key : Keys \cup {None}, stop : BOOLEAN,
                thread : {"none", "opening", "listening", "releasing"}]

\* No listener is 0, the model's None, and settings have a key and a login flag.
LEMMA Constants ==
  /\ None \notin Listeners
  /\ \A set \in Settings : set.hotkey \in Keys /\ set.login \in BOOLEAN
  BY ListenersAssumption, SettingsAssumption DEF None

\* At rest or on the way to it, the GTK thread's record has its type.
LEMMA RestTypes ==
  ASSUME NEW set \in Settings,
         NEW at \in {"boot", "starting", "stopping", "unwinding", "saving", "saved", "rest"}
  PROVE  /\ RestWith(set) \in GtkTypes
         /\ [RestWith(set) EXCEPT !.at = at] \in GtkTypes
         /\ [RestWith(set) EXCEPT !.at = at] =
                [at |-> at, doing |-> "nothing", other |-> set, candidate |-> None,
                 previous |-> None, key |-> None]
  BY DEF RestWith, GtkTypes

\* What launching a listener does.
LEMMA Launches ==
  ASSUME listener \in [Listeners -> ThreadTypes],
         NEW doing \in {"boot", "confirm", "rollback"}, NEW other \in Settings, NEW key \in Keys,
         Launch(doing, other, key)
  PROVE  /\ listener' \in [Listeners -> ThreadTypes] /\ gtk' \in GtkTypes
         /\ gtk'.at = "starting" /\ gtk'.doing = doing /\ gtk'.other = other
         /\ gtk'.candidate \in Listeners /\ gtk'.candidate # hotkeys
         /\ listener'[gtk'.candidate].key = key /\ ~listener'[gtk'.candidate].stop
         /\ listener'[gtk'.candidate].thread = "opening"
         /\ \A l \in Listeners \ {gtk'.candidate} : listener'[l] = listener[l]
<1>1. PICK l \in Free :
        /\ listener' = [listener EXCEPT ![l] = [Unused EXCEPT !.key = key, !.thread = "opening"]]
        /\ gtk' = [at |-> "starting", doing |-> doing, other |-> other,
                   candidate |-> l, previous |-> None, key |-> None]
  BY DEF Launch
<1>2. l \in Listeners /\ l # hotkeys
  BY <1>1 DEF Free
<1> DEFINE new == [Unused EXCEPT !.key = key, !.thread = "opening"]
<1>3. new \in ThreadTypes /\ new.key = key /\ new.thread = "opening" /\ ~new.stop
  BY DEF Unused, ThreadTypes
<1> HIDE DEF new
<1>4. listener' \in [Listeners -> ThreadTypes] /\ listener'[l] = new
      /\ \A m \in Listeners \ {l} : listener'[m] = listener[m]
  BY <1>1, <1>2, <1>3 DEF new
<1>5. gtk' \in GtkTypes
  BY <1>1, <1>2 DEF GtkTypes
<1> QED BY <1>1, <1>2, <1>3, <1>4, <1>5

LEMMA InitInvariant == Init => IInv
<1> SUFFICES ASSUME Init PROVE IInv
  OBVIOUS
<1> USE Constants DEF Init
<1>1. Unused \in ThreadTypes /\ Unused.thread = "none"
  BY DEF Unused, ThreadTypes
<1>2. gtk \in GtkTypes /\ gtk.at = "boot"
  BY DEF Rest, RestWith, GtkTypes
<1>3. TypeOK
  BY <1>1, <1>2 DEF TypeOK, GtkTypes, ThreadTypes
<1> QED BY <1>1, <1>2, <1>3 DEF IInv, Places, NoGhost, GoesOn, FileKept, KeyHeld

-----------------------------------------------------------------------------
(* The GTK thread.                                                           *)

\* Starting a listener keeps the invariant: nothing that went on is touched.
LEMMA LaunchInvariant ==
  ASSUME IInv, NEW doing \in {"boot", "confirm", "rollback"}, NEW other \in Settings, NEW key \in Keys,
         gtk.at \in {"boot", "rest", "saving", "saved"}, ~wayland,
         Launch(doing, other, key),
         UNCHANGED <<wayland, hotkeys, binding, files>>,
         settings' \in Settings, mishaps' \subseteq {"key", "file"},
         "key" \in mishaps => "key" \in mishaps',
         "file" \notin mishaps' => "file" \notin mishaps /\ settings' = settings /\ gtk.at # "saved",
         doing # "rollback" => settings' = settings,
         doing = "confirm" => gtk.at = "rest" /\ key = other.hotkey,
         doing = "boot" => gtk.at = "boot" /\ key = settings'.hotkey,
         doing = "rollback" => key = settings'.hotkey
  PROVE  IInv'
<1> USE DEF files
<1>0. IInv /\ TypeOK
  BY DEF IInv
<1>1. listener \in [Listeners -> ThreadTypes]
  BY <1>0 DEF TypeOK, ThreadTypes
<1>2. /\ listener' \in [Listeners -> ThreadTypes] /\ gtk' \in GtkTypes
      /\ gtk'.at = "starting" /\ gtk'.doing = doing /\ gtk'.other = other
      /\ gtk'.candidate \in Listeners /\ gtk'.candidate # hotkeys
      /\ listener'[gtk'.candidate].key = key /\ ~listener'[gtk'.candidate].stop
      /\ listener'[gtk'.candidate].thread = "opening"
      /\ \A l \in Listeners \ {gtk'.candidate} : listener'[l] = listener[l]
  BY <1>1, Launches
<1>3. TypeOK'
  BY <1>0, <1>2 DEF TypeOK, GtkTypes, ThreadTypes
<1>4. Places'
  BY <1>2 DEF Places
<1>5. NoGhost'
  BY <1>0, <1>2 DEF IInv, NoGhost, GoesOn
<1>6. FileKept'
  BY <1>0, <1>2 DEF IInv, FileKept
<1>7. KeyHeld'
  <2> SUFFICES ASSUME "key" \notin mishaps' PROVE KeyHeld'
    BY DEF KeyHeld
  <2>1. "key" \notin mishaps
    OBVIOUS
  <2>2. key = Starting'
    BY <1>2 DEF Starting
  <2>3. hotkeys # None /\ doing # "rollback" =>
          /\ binding = settings.hotkey /\ listener[hotkeys].key = binding
          /\ listener[hotkeys].thread = "listening" /\ ~listener[hotkeys].stop
    BY <1>0, <2>1 DEF IInv, KeyHeld, Places, Wanted
  <2>4. hotkeys # None => hotkeys \in Listeners \ {gtk'.candidate}
    BY <1>0, <1>2 DEF TypeOK
  <2>5. Wanted' = settings'.hotkey
    BY <1>2 DEF Wanted
  <2> QED BY <1>2, <2>1, <2>2, <2>3, <2>4, <2>5 DEF KeyHeld
<1> QED BY <1>3, <1>4, <1>5, <1>6, <1>7 DEF IInv

LEMMA BootInvariant == IInv /\ Boot => IInv'
<1> SUFFICES ASSUME IInv, Boot PROVE IInv'
  OBVIOUS
<1> USE DEF Boot, files
<1>0. IInv /\ TypeOK /\ settings \in Settings /\ hotkeys = None
  BY DEF IInv, TypeOK, Places
<1>1. CASE wayland /\ gtk' = Rest /\ UNCHANGED listener
  <2>1. gtk' \in GtkTypes /\ gtk'.at = "rest"
    BY <1>0, <1>1, RestTypes DEF Rest, RestWith
  <2>2. TypeOK'
    BY <1>0, <1>1, <2>1 DEF TypeOK, GtkTypes
  <2>3. Places' /\ NoGhost'
    BY <1>0, <1>1, <2>1 DEF IInv, Places, NoGhost, GoesOn
  <2>4. (FileKept /\ KeyHeld)'
    BY <1>0, <1>1, <2>1 DEF IInv, FileKept, KeyHeld
  <2> QED BY <2>2, <2>3, <2>4 DEF IInv
<1>2. CASE ~wayland /\ Launch("boot", settings, settings.hotkey)
  BY <1>0, <1>2, LaunchInvariant, Constants DEF TypeOK
<1> QED BY <1>1, <1>2

LEMMA ConfirmInvariant ==
  ASSUME IInv, NEW goal \in Settings, Confirm(goal)
  PROVE  IInv'
<1> USE DEF Confirm, files, AtRest
<1>0. IInv /\ TypeOK /\ settings \in Settings
  BY DEF IInv, TypeOK
<1>1. CASE /\ \/ hotkeys # None /\ binding = goal.hotkey /\ UNCHANGED <<hotkeys, binding>>
              \/ wayland /\ hotkeys' = None /\ binding' = None
           /\ gtk' = [Rest EXCEPT !.at = "saving", !.other = goal] /\ UNCHANGED listener
  <2>1. gtk' \in GtkTypes /\ gtk'.at = "saving" /\ gtk'.other = goal
    BY <1>0, <1>1 DEF Rest, RestWith, GtkTypes
  <2>2. TypeOK'
    BY <1>0, <1>1, <2>1 DEF TypeOK, GtkTypes
  <2>3. hotkeys' = hotkeys
    BY <1>0, <1>1 DEF IInv, Places
  <2>4. Places' /\ NoGhost'
    BY <1>0, <1>1, <2>1, <2>3 DEF IInv, Places, NoGhost, GoesOn
  <2>5. (FileKept /\ KeyHeld)'
    <3>1. hotkeys # None => binding = goal.hotkey /\ binding' = binding
      BY <1>0, <1>1 DEF IInv, Places
    <3>2. Wanted' = goal.hotkey
      BY <2>1 DEF Wanted
    <3> QED BY <1>0, <1>1, <2>1, <2>3, <3>1, <3>2 DEF IInv, FileKept, KeyHeld
  <2> QED BY <2>2, <2>4, <2>5 DEF IInv
<1>2. CASE ~wayland /\ Launch("confirm", goal, goal.hotkey) /\ UNCHANGED <<hotkeys, binding>>
  BY <1>0, <1>2, LaunchInvariant, Constants DEF TypeOK
<1> QED BY <1>1, <1>2

\* Where the GTK thread is when the listener is started and the previous one has stopped.
LEMMA DoneTypes ==
  ASSUME gtk \in GtkTypes, settings \in Settings
  PROVE  /\ Done(gtk.doing) \in GtkTypes
         /\ gtk.doing = "confirm" => Done(gtk.doing).at = "saving" /\ Done(gtk.doing).other = gtk.other
         /\ gtk.doing # "confirm" => Done(gtk.doing).at = "rest"
         /\ Rest \in GtkTypes /\ Rest.at = "rest"
<1>1. CASE gtk.doing = "confirm"
  <2>1. gtk.other \in Settings
    BY DEF GtkTypes
  <2>2. Done(gtk.doing) = [at |-> "saving", doing |-> "nothing", other |-> gtk.other, candidate |-> None,
                           previous |-> None, key |-> None]
    BY <1>1 DEF Done, RestWith
  <2> QED BY <1>1, <2>1, <2>2 DEF GtkTypes, Rest, RestWith
<1>2. CASE gtk.doing # "confirm"
  BY <1>2 DEF Done, GtkTypes, Rest, RestWith
<1> QED BY <1>1, <1>2

\* A listener told to stop, or not, keeps the types and every other listener.
LEMMA StopTypes ==
  ASSUME listener \in [Listeners -> ThreadTypes], NEW l \in Listeners, NEW stop \in BOOLEAN,
         listener' = [listener EXCEPT ![l].stop = stop]
  PROVE  /\ listener' \in [Listeners -> ThreadTypes]
         /\ listener'[l].stop = stop /\ listener'[l].thread = listener[l].thread
         /\ listener'[l].key = listener[l].key
         /\ \A m \in Listeners \ {l} : listener'[m] = listener[m]
  BY DEF ThreadTypes

LEMMA StartedInvariant == IInv /\ Started => IInv'
<1> SUFFICES ASSUME IInv, Started PROVE IInv'
  OBVIOUS
<1> USE DEF Started, files
<1>0. IInv /\ TypeOK /\ gtk.candidate \in Listeners /\ gtk.candidate # hotkeys /\ ~wayland
  BY DEF IInv, TypeOK, Places
<1>1. listener \in [Listeners -> ThreadTypes] /\ gtk \in GtkTypes /\ settings \in Settings
  BY <1>0 DEF TypeOK, ThreadTypes, GtkTypes
<1>2. listener[gtk.candidate].key \in Keys \cup {None}
  BY <1>0, <1>1 DEF ThreadTypes
<1>3. "key" \notin mishaps => ~listener[gtk.candidate].stop /\ listener[gtk.candidate].key = Starting
  BY <1>0 DEF IInv, FileKept, KeyHeld
<1>4. CASE hotkeys = None /\ gtk' = Done(gtk.doing) /\ UNCHANGED listener
  <2>1. TypeOK'
    BY <1>0, <1>1, <1>2, <1>4, DoneTypes DEF TypeOK, GtkTypes
  <2>2. gtk'.at \in {"saving", "rest"}
    BY <1>1, <1>4, DoneTypes
  <2>3. Places' /\ NoGhost'
    BY <1>0, <1>4, <2>2, Constants DEF IInv, Places, NoGhost, GoesOn
  <2>4. Starting = Wanted'
    BY <1>1, <1>4, DoneTypes DEF Starting, Wanted
  <2>5. (FileKept /\ KeyHeld)'
    BY <1>0, <1>3, <1>4, <2>2, <2>4 DEF IInv, FileKept, KeyHeld
  <2> QED BY <2>1, <2>3, <2>5 DEF IInv
<1>5. CASE /\ hotkeys # None
           /\ gtk' = [gtk EXCEPT !.at = "stopping", !.previous = hotkeys, !.key = binding]
           /\ listener' = [listener EXCEPT ![hotkeys].stop = TRUE]
  <2>1. /\ listener' \in [Listeners -> ThreadTypes] /\ hotkeys \in Listeners
        /\ listener'[hotkeys].stop = TRUE
        /\ \A m \in Listeners \ {hotkeys} : listener'[m] = listener[m]
    BY <1>0, <1>1, <1>5, StopTypes DEF TypeOK
  <2>2. /\ gtk' \in GtkTypes /\ gtk'.at = "stopping" /\ gtk'.doing = gtk.doing
        /\ gtk'.other = gtk.other /\ gtk'.candidate = gtk.candidate
    BY <1>0, <1>1, <1>5, <2>1 DEF GtkTypes, TypeOK
  <2>3. TypeOK'
    BY <1>0, <1>2, <1>5, <2>1, <2>2 DEF TypeOK, GtkTypes, ThreadTypes
  <2>4. Places'
    BY <1>0, <2>2 DEF Places
  <2>5. NoGhost'
    BY <1>0, <2>1, <2>2 DEF IInv, NoGhost, GoesOn
  <2>6. Starting = Wanted'
    BY <2>2 DEF Starting, Wanted
  <2>7. (FileKept /\ KeyHeld)'
    BY <1>0, <1>3, <2>1, <2>2, <2>6 DEF IInv, FileKept, KeyHeld
  <2> QED BY <2>3, <2>4, <2>5, <2>7 DEF IInv
<1> QED BY <1>4, <1>5

LEMMA StartRaisesInvariant == IInv /\ StartRaises => IInv'
<1> SUFFICES ASSUME IInv, StartRaises PROVE IInv'
  OBVIOUS
<1> USE DEF StartRaises, NotDone, files
<1>0. IInv /\ TypeOK /\ gtk.candidate \in Listeners /\ gtk.candidate # hotkeys /\ ~wayland
  BY DEF IInv, TypeOK, Places
<1>1. listener \in [Listeners -> ThreadTypes] /\ gtk \in GtkTypes /\ settings \in Settings
  BY <1>0 DEF TypeOK, ThreadTypes, GtkTypes
<1>2. /\ listener' \in [Listeners -> ThreadTypes]
      /\ listener[gtk.candidate].thread = "opening" => listener'[gtk.candidate].stop
      /\ listener'[gtk.candidate].thread = listener[gtk.candidate].thread
      /\ \A m \in Listeners \ {gtk.candidate} : listener'[m] = listener[m]
  <2> DEFINE stop == listener[gtk.candidate].thread = "opening"
  <2>1. stop \in BOOLEAN /\ listener' = [listener EXCEPT ![gtk.candidate].stop = stop]
    OBVIOUS
  <2> HIDE DEF stop
  <2>2. /\ listener' \in [Listeners -> ThreadTypes]
        /\ listener'[gtk.candidate].stop = stop
        /\ listener'[gtk.candidate].thread = listener[gtk.candidate].thread
        /\ \A m \in Listeners \ {gtk.candidate} : listener'[m] = listener[m]
    BY <1>0, <1>1, <2>1, StopTypes
  <2> QED BY <2>2 DEF stop
<1>3. gtk' \in GtkTypes /\ gtk'.at = "rest"
  BY <1>1, DoneTypes
<1>4. TypeOK'
  BY <1>0, <1>2, <1>3 DEF TypeOK, GtkTypes, ThreadTypes
<1>5. Places'
  BY <1>0, <1>3 DEF Places
<1>6. NoGhost'
  <2>1. listener'[gtk.candidate].thread \in {"opening", "listening"} => listener'[gtk.candidate].stop
    BY <1>2
  <2> QED BY <1>0, <1>2, <1>3, <2>1 DEF IInv, NoGhost, GoesOn
<1>7. (FileKept /\ KeyHeld)'
  <2>0. FileKept'
    BY <1>0, <1>3 DEF IInv, FileKept
  <2> SUFFICES ASSUME "key" \notin mishaps' PROVE KeyHeld'
    BY <2>0 DEF KeyHeld
  <2>1. "key" \notin mishaps /\ gtk.doing # "rollback"
    BY <1>0 DEF TypeOK
  <2>2. hotkeys # None => hotkeys \in Listeners \ {gtk.candidate}
    BY <1>0 DEF TypeOK
  <2>3. Wanted' = settings.hotkey /\ Wanted = settings.hotkey
    BY <1>3 DEF Wanted
  <2> QED BY <1>0, <1>2, <1>3, <2>1, <2>2, <2>3 DEF IInv, KeyHeld
<1> QED BY <1>4, <1>5, <1>6, <1>7 DEF IInv

LEMMA PreviousStoppedInvariant == IInv /\ PreviousStopped => IInv'
<1> SUFFICES ASSUME IInv, PreviousStopped PROVE IInv'
  OBVIOUS
<1> USE DEF PreviousStopped, files
<1>0. IInv /\ TypeOK
  BY DEF IInv
<1>1. gtk \in GtkTypes /\ settings \in Settings /\ ~wayland
  BY <1>0 DEF TypeOK, GtkTypes, IInv, Places
<1>2. gtk' \in GtkTypes /\ gtk'.at \in {"saving", "rest"}
  BY <1>1, DoneTypes
<1>3. TypeOK'
  BY <1>0, <1>2 DEF TypeOK, GtkTypes
<1>4. Places' /\ NoGhost'
  BY <1>0, <1>1, <1>2 DEF IInv, Places, NoGhost, GoesOn
<1>5. Wanted' = Wanted
  BY <1>1, DoneTypes DEF Wanted
<1>6. (FileKept /\ KeyHeld)'
  BY <1>0, <1>2, <1>5 DEF IInv, FileKept, KeyHeld
<1> QED BY <1>3, <1>4, <1>6 DEF IInv

LEMMA StopTimesOutInvariant == IInv /\ StopTimesOut => IInv'
<1> SUFFICES ASSUME IInv, StopTimesOut PROVE IInv'
  OBVIOUS
<1> USE DEF StopTimesOut, At, files
<1>0. IInv /\ TypeOK /\ gtk.candidate \in Listeners /\ hotkeys = gtk.candidate /\ ~wayland
  BY DEF IInv, TypeOK, Places
<1>1. listener \in [Listeners -> ThreadTypes] /\ gtk \in GtkTypes
  BY <1>0 DEF TypeOK, ThreadTypes, GtkTypes
<1>2. /\ listener' \in [Listeners -> ThreadTypes]
      /\ listener'[gtk.candidate].stop = TRUE
      /\ \A m \in Listeners \ {gtk.candidate} : listener'[m] = listener[m]
  BY <1>0, <1>1, StopTypes
<1>3. gtk' \in GtkTypes /\ gtk'.at = "unwinding" /\ gtk'.candidate = gtk.candidate
  BY <1>1 DEF GtkTypes
<1>4. TypeOK'
  BY <1>0, <1>2, <1>3 DEF TypeOK, GtkTypes, ThreadTypes
<1>5. Places' /\ NoGhost' /\ (FileKept /\ KeyHeld)'
  BY <1>0, <1>2, <1>3 DEF IInv, Places, NoGhost, GoesOn, FileKept, KeyHeld
<1> QED BY <1>4, <1>5 DEF IInv

\* The one that is made the current one again was told to stop.
LEMMA UnwindInvariant == IInv /\ Unwind => IInv'
<1> SUFFICES ASSUME IInv, Unwind PROVE IInv'
  OBVIOUS
<1> USE DEF Unwind, NotDone, files
<1>0. IInv /\ TypeOK /\ ~wayland /\ hotkeys \in Listeners
  BY DEF IInv, TypeOK, Places
<1>1. gtk \in GtkTypes /\ settings \in Settings
  BY <1>0 DEF TypeOK, GtkTypes
<1>2. gtk' \in GtkTypes /\ gtk'.at = "rest"
  BY <1>1, DoneTypes
<1>3. gtk.previous \in Listeners \cup {None} /\ gtk.key \in Keys \cup {None}
  BY <1>1 DEF GtkTypes
<1>4. TypeOK'
  BY <1>0, <1>2, <1>3 DEF TypeOK, GtkTypes
<1>5. "key" \in mishaps
  BY <1>0, Constants DEF IInv, KeyHeld
<1>6. Places' /\ NoGhost' /\ (FileKept /\ KeyHeld)'
  BY <1>0, <1>2, <1>5 DEF IInv, Places, NoGhost, GoesOn, FileKept, KeyHeld
<1> QED BY <1>4, <1>6 DEF IInv

LEMMA SaveInvariant == IInv /\ Save => IInv'
<1> SUFFICES ASSUME IInv, Save PROVE IInv'
  OBVIOUS
<1> USE DEF Save, files
<1>0. IInv /\ TypeOK
  BY DEF IInv
<1>1. gtk \in GtkTypes /\ settings \in Settings /\ gtk.other \in Settings
  BY <1>0 DEF TypeOK, GtkTypes
<1>2. gtk' \in GtkTypes /\ gtk'.at = "saved"
  BY <1>1 DEF GtkTypes
<1>3. TypeOK'
  BY <1>0, <1>1, <1>2 DEF TypeOK, GtkTypes
<1>4. Places' /\ NoGhost'
  BY <1>0, <1>2 DEF IInv, Places, NoGhost, GoesOn
<1>5. Wanted = gtk.other.hotkey /\ Wanted' = gtk.other.hotkey
  BY <1>2 DEF Wanted
<1>6. (FileKept /\ KeyHeld)'
  BY <1>0, <1>2, <1>5 DEF IInv, FileKept, KeyHeld
<1> QED BY <1>3, <1>4, <1>6 DEF IInv

LEMMA SetAutostartInvariant == IInv /\ SetAutostart => IInv'
<1> SUFFICES ASSUME IInv, SetAutostart PROVE IInv'
  OBVIOUS
<1> USE DEF SetAutostart
<1>0. IInv /\ TypeOK
  BY DEF IInv
<1>1. gtk \in GtkTypes /\ settings \in Settings /\ settings.login \in BOOLEAN
  BY <1>0, Constants DEF TypeOK, GtkTypes
<1>2. gtk' \in GtkTypes /\ gtk'.at = "rest"
  BY <1>1, DoneTypes
<1>3. TypeOK'
  BY <1>0, <1>1, <1>2 DEF TypeOK, GtkTypes
<1>4. Places' /\ NoGhost'
  BY <1>0, <1>2 DEF IInv, Places, NoGhost, GoesOn
<1>5. Wanted = settings.hotkey /\ Wanted' = settings.hotkey
  BY <1>2 DEF Wanted
<1>6. (FileKept /\ KeyHeld)'
  BY <1>0, <1>2, <1>5 DEF IInv, FileKept, KeyHeld
<1> QED BY <1>3, <1>4, <1>6 DEF IInv

LEMMA SaveFailsInvariant == IInv /\ SaveFails => IInv'
<1> SUFFICES ASSUME IInv, SaveFails PROVE IInv'
  OBVIOUS
<1> USE DEF SaveFails, files
<1>0. IInv /\ TypeOK
  BY DEF IInv
<1>1. gtk \in GtkTypes /\ settings \in Settings /\ Before \in Settings
  BY <1>0 DEF TypeOK, GtkTypes, Before
<1>2. /\ settings' = Before /\ mishaps' \subseteq {"key", "file"}
      /\ "key" \in mishaps => "key" \in mishaps'
      /\ "file" \notin mishaps' => "file" \notin mishaps /\ gtk.at = "saving"
  BY <1>0 DEF TypeOK
<1>3. "file" \notin mishaps' => Before = settings
  BY <1>2 DEF Before
<1>4. CASE (wayland \/ (hotkeys # None /\ binding = Before.hotkey)) /\ gtk' = RestWith(Before) /\ UNCHANGED listener
  <2>1. gtk' \in GtkTypes /\ gtk'.at = "rest"
    BY <1>1, <1>4, RestTypes DEF RestWith
  <2>2. TypeOK'
    BY <1>0, <1>1, <1>2, <1>4, <2>1 DEF TypeOK, GtkTypes
  <2>3. Places' /\ NoGhost'
    BY <1>0, <1>4, <2>1 DEF IInv, Places, NoGhost, GoesOn
  <2>4. Wanted' = Before.hotkey
    BY <1>2, <2>1 DEF Wanted
  <2>5. hotkeys # None => binding = Before.hotkey
    BY <1>0, <1>4 DEF IInv, Places
  <2>6. (FileKept /\ KeyHeld)'
    BY <1>0, <1>2, <1>3, <1>4, <2>1, <2>4, <2>5 DEF IInv, FileKept, KeyHeld
  <2> QED BY <2>2, <2>3, <2>6 DEF IInv
<1>5. CASE ~wayland /\ Launch("rollback", Before, Before.hotkey)
  BY <1>0, <1>1, <1>2, <1>3, <1>5, LaunchInvariant, Constants
<1> QED BY <1>4, <1>5

-----------------------------------------------------------------------------
(* A restart, the threads of the listeners and the other applications.       *)

LEMMA RestartInvariant == IInv /\ Restart => IInv'
<1> SUFFICES ASSUME IInv, Restart PROVE IInv'
  OBVIOUS
<1> USE DefaultsAssumption DEF Restart, files
<1>0. IInv /\ TypeOK /\ saved \in Settings
  BY DEF IInv, TypeOK
<1>1. Unused \in ThreadTypes /\ Unused.thread = "none"
  BY DEF Unused, ThreadTypes
<1>2. gtk' \in GtkTypes /\ gtk'.at = "boot"
  BY <1>0 DEF RestWith, GtkTypes
<1>3. TypeOK'
  BY <1>0, <1>1, <1>2 DEF TypeOK, GtkTypes, ThreadTypes
<1>4. Places' /\ NoGhost'
  BY <1>0, <1>1, <1>2 DEF IInv, Places, NoGhost, GoesOn
<1>5. (FileKept /\ KeyHeld)'
  BY <1>0, <1>2 DEF IInv, FileKept, KeyHeld, TypeOK
<1> QED BY <1>3, <1>4, <1>5 DEF IInv

\* A thread that goes on as another or ends keeps the invariant, if it did not go on, or
\* only began to listen, or had been told to stop, or had not got its key.
LEMMA BecomesInvariant ==
  ASSUME IInv, NEW l \in Listeners, NEW thread \in {"none", "listening", "releasing"},
         Becomes(l, thread), mishaps' \in {mishaps, mishaps \cup {"key"}},
         thread = "listening" => listener[l].thread = "opening",
         "key" \notin mishaps' =>
             /\ listener[l].thread = "listening" => listener[l].stop
             /\ thread = "releasing" => listener[l].stop /\ listener[l].thread = "listening"
  PROVE  IInv'
<1> USE DEF Becomes, files
<1>0. IInv /\ TypeOK
  BY DEF IInv
<1>1. listener \in [Listeners -> ThreadTypes] /\ gtk \in GtkTypes
  BY <1>0 DEF TypeOK, ThreadTypes, GtkTypes
<1>2. Unused \in ThreadTypes /\ Unused.thread = "none"
  BY DEF Unused, ThreadTypes
<1>3. /\ listener' \in [Listeners -> ThreadTypes] /\ listener'[l].thread = thread
      /\ thread # "none" => /\ listener'[l].stop = listener[l].stop
                            /\ listener'[l].key = listener[l].key
      /\ \A m \in Listeners \ {l} : listener'[m] = listener[m]
  <2>1. CASE thread = "none"
    BY <1>1, <1>2, <2>1
  <2>2. CASE thread # "none"
    <3>1. listener' = [listener EXCEPT ![l].thread = thread]
      BY <2>2
    <3> HIDE DEF Becomes
    <3> QED BY <1>1, <2>2, <3>1 DEF ThreadTypes
  <2> QED BY <2>1, <2>2
<1>4. TypeOK'
  BY <1>0, <1>3 DEF TypeOK, GtkTypes, ThreadTypes
<1>5. Places'
  BY <1>0 DEF IInv, Places
<1>6. NoGhost'
  BY <1>0, <1>3 DEF IInv, NoGhost, GoesOn
<1>7. (FileKept /\ KeyHeld)'
  <2>0. FileKept'
    BY <1>0 DEF IInv, FileKept
  <2> SUFFICES ASSUME "key" \notin mishaps' PROVE KeyHeld'
    BY <2>0 DEF KeyHeld
  <2>1. Wanted' = Wanted /\ Starting' = Starting
    BY DEF Wanted, Starting
  <2>2. gtk.at = "starting" => gtk.candidate \in Listeners
    BY <1>0 DEF IInv, Places
  <2>3. hotkeys # None => hotkeys \in Listeners
    BY <1>0 DEF TypeOK
  <2> QED BY <1>0, <1>3, <2>1, <2>2, <2>3 DEF IInv, KeyHeld
<1> QED BY <1>4, <1>5, <1>6, <1>7 DEF IInv

LEMMA ThreadInvariant ==
  ASSUME IInv, NEW l \in Listeners, Thread(l) \/ ListenRaises(l)
  PROVE  IInv'
<1>1. CASE Grabs(l)
  BY <1>1, BecomesInvariant DEF Grabs
<1>2. CASE GrabFails(l)
  BY <1>2, BecomesInvariant DEF GrabFails
<1>3. CASE ListenEnds(l)
  BY <1>3, BecomesInvariant DEF ListenEnds
<1>4. CASE Release(l)
  BY <1>4, BecomesInvariant DEF Release
<1>5. CASE ListenRaises(l)
  BY <1>5, BecomesInvariant DEF ListenRaises
<1> QED BY <1>1, <1>2, <1>3, <1>4, <1>5 DEF Thread

-----------------------------------------------------------------------------
(* The theorems.                                                             *)

\* Every step keeps the invariant.
LEMMA NextInvariant == IInv /\ [Next]_vars => IInv'
<1> SUFFICES ASSUME IInv, [Next]_vars PROVE IInv'
  OBVIOUS
<1>1. CASE Gtk
  BY <1>1, BootInvariant, StartedInvariant, StartRaisesInvariant, PreviousStoppedInvariant,
     StopTimesOutInvariant, UnwindInvariant, SaveInvariant, SetAutostartInvariant,
     SaveFailsInvariant DEF Gtk
<1>2. CASE \E goal \in Settings : Confirm(goal)
  BY <1>2, ConfirmInvariant
<1>3. CASE \E l \in Listeners : Thread(l) \/ ListenRaises(l)
  BY <1>3, ThreadInvariant
<1>4. CASE Restart
  BY <1>4, RestartInvariant
<1>5. CASE UNCHANGED vars
  BY <1>5 DEF vars, files, IInv, TypeOK, Places, NoGhost, GoesOn, FileKept, KeyHeld, Wanted, Starting
<1> QED BY <1>1, <1>2, <1>3, <1>4, <1>5 DEF Next

\* The inductive invariant holds in every behaviour.
THEOREM HotkeyInvariant == Spec => []IInv
<1>1. Init => IInv
  BY InitInvariant
<1>2. IInv /\ [Next]_vars => IInv'
  BY NextInvariant
<1> QED BY <1>1, <1>2, PTL DEF Spec

\* TypeOK of the shortcut: every variable keeps its type.
THEOREM TypeCorrect == Spec => []TypeOK
<1>1. IInv => TypeOK
  BY DEF IInv
<1> QED BY <1>1, HotkeyInvariant, PTL

\* However many listeners were started, replaced, given up or late: one that goes on while
\* the GTK thread is at rest is self.hotkeys.
THEOREM NoGhostGoesOn == Spec => []NoGhostHotkey
<1>1. IInv => NoGhostHotkey
  BY DEF IInv, NoGhost, GoesOn, NoGhostHotkey, AtRest
<1> QED BY <1>1, HotkeyInvariant, PTL

\* What the settings say is in the file and in the autostart directory, except after a crash
\* or a failure between the two files and a start with an unreadable client.json, until the
\* next settings are saved.  If a key is grabbed at all, it is the one they name, except after
\* a stop that timed out, a key not grabbed back and a listener that died, until the next start.
THEOREM SettingsKept == Spec => []SettingsInEffect
<1>1. IInv => SettingsInEffect
  BY DEF IInv, FileKept, KeyHeld, Wanted, SettingsInEffect, AtRest
<1> QED BY <1>1, HotkeyInvariant, PTL
=============================================================================
