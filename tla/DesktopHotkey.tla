----------------------------- MODULE DesktopHotkey -----------------------------
(***************************************************************************)
(* The global shortcut of desktop.py and the settings it belongs to.  An   *)
(* ExclusiveX11HotKey grabs its key in a thread of its own; the GTK thread *)
(* starts one, replaces it when settings are confirmed, and puts the old   *)
(* one back when they cannot be saved.  It waits for a thread for a few    *)
(* seconds only.  The X server and the other applications are outside: a   *)
(* key that no listener holds may be another application's at any moment.  *)
(***************************************************************************)
EXTENDS Integers, FiniteSets

CONSTANTS
    Keys,           \* the shortcuts one can set
    Settings,       \* the settings one can confirm
    Defaults,       \* DesktopSettings(), the settings of a client that finds none
    Listeners       \* ExclusiveX11HotKey objects; those not in use are created anew

ASSUME ListenersAssumption == Listeners \subseteq Nat \ {0}
ASSUME SettingsAssumption == Settings \subseteq [hotkey : Keys, login : BOOLEAN]
ASSUME DefaultsAssumption == Defaults \in Settings

VARIABLES
    wayland,    \* is_wayland_session()
    listener,   \* the listeners and their threads
    hotkeys,    \* self.hotkeys, or None
    binding,    \* self._hotkey_binding
    settings,   \* self.settings, as far as they are looked at here
    saved,      \* client.json, readable or not
    autostart,  \* whether the autostart file is there
    gtk,        \* where the GTK thread is, and the other settings and listeners it holds there
    mishaps     \* history: "key" and "file", as far as something that is not undone befell them

files == <<saved, autostart>>
vars == <<wayland, listener, hotkeys, binding, settings, files, gtk, mishaps>>

None == 0
Unused == [key |-> None, thread |-> "none", stop |-> FALSE]
Alive(l) == listener[l].thread \in {"opening", "listening", "releasing"}
Grabbing(l) == listener[l].thread \in {"listening", "releasing"}
AtRest == gtk.at = "rest"
At(place) == gtk' = [gtk EXCEPT !.at = place]
RestWith(set) == [at |-> "rest", doing |-> "nothing", other |-> set, candidate |-> None, previous |-> None, key |-> None]
Rest == RestWith(settings)

Init ==
    /\ wayland \in BOOLEAN
    /\ listener = [l \in Listeners |-> Unused]
    /\ hotkeys = None /\ binding = None
    /\ settings \in Settings /\ saved = settings /\ autostart = settings.login
    /\ gtk = [Rest EXCEPT !.at = "boot"]
    /\ mishaps = {}

-----------------------------------------------------------------------------
(* The GTK thread.                                                           *)

\* A new listener is started for the key, and waited for.
Free == {l \in Listeners : ~Alive(l) /\ l # hotkeys}
Launch(doing, other, key) ==
    \E l \in Free :
        /\ \A free \in Free : l <= free
        /\ listener' = [listener EXCEPT ![l] = [Unused EXCEPT !.key = key, !.thread = "opening"]]
        /\ gtk' = [at |-> "starting", doing |-> doing, other |-> other,
                   candidate |-> l, previous |-> None, key |-> None]

\* _start_hotkey, in the constructor of the controller.
Boot ==
    /\ gtk.at = "boot"
    /\ IF wayland
       THEN gtk' = Rest /\ UNCHANGED listener
       ELSE Launch("boot", settings, settings.hotkey)
    /\ UNCHANGED <<wayland, hotkeys, binding, settings, files, mishaps>>

\* A settings dialog is answered with OK, and _replace_hotkey asked for the key.
Confirm(goal) ==
    /\ AtRest
    /\ IF hotkeys # None /\ binding = goal.hotkey
       THEN gtk' = [Rest EXCEPT !.at = "saving", !.other = goal] /\ UNCHANGED <<listener, hotkeys, binding>>
       ELSE IF wayland
       THEN /\ gtk' = [Rest EXCEPT !.at = "saving", !.other = goal]
            /\ hotkeys' = None /\ binding' = None /\ UNCHANGED listener
       ELSE Launch("confirm", goal, goal.hotkey) /\ UNCHANGED <<hotkeys, binding>>
    /\ UNCHANGED <<wayland, settings, files, mishaps>>

Done(doing) == IF doing = "confirm" THEN [RestWith(gtk.other) EXCEPT !.at = "saving"] ELSE Rest
NotDone(doing) ==
    /\ gtk' = Rest
    /\ mishaps' = IF doing = "rollback" THEN mishaps \cup {"key"} ELSE mishaps

\* Fault: the listener that has been replaced is left to itself.
StartedForgets ==
    /\ gtk.at = "starting"
    /\ listener[gtk.candidate].thread = "listening"
    /\ hotkeys' = gtk.candidate /\ binding' = listener[gtk.candidate].key
    /\ gtk' = Done(gtk.doing)
    /\ UNCHANGED <<wayland, listener, settings, files, mishaps>>

\* start returns: the new listener is the current one, and the previous one told to stop.
Started ==
    /\ gtk.at = "starting"
    /\ listener[gtk.candidate].thread = "listening"
    /\ hotkeys' = gtk.candidate /\ binding' = listener[gtk.candidate].key
    /\ IF hotkeys = None
       THEN gtk' = Done(gtk.doing) /\ UNCHANGED listener
       ELSE /\ gtk' = [gtk EXCEPT !.at = "stopping", !.previous = hotkeys, !.key = binding]
            /\ listener' = [listener EXCEPT ![hotkeys].stop = TRUE]
    /\ UNCHANGED <<wayland, settings, files, mishaps>>

\* start raises: the key cannot be grabbed; or it takes three seconds, and the listener is
\* told to stop and given two more.
StartRaises ==
    /\ gtk.at = "starting"
    /\ listener[gtk.candidate].thread # "listening"
    /\ listener' = [listener EXCEPT ![gtk.candidate].stop = listener[gtk.candidate].thread = "opening"]
    /\ NotDone(gtk.doing)
    /\ UNCHANGED <<wayland, hotkeys, binding, settings, files>>

PreviousStopped ==
    /\ gtk.at = "stopping" /\ ~Alive(gtk.previous)
    /\ gtk' = Done(gtk.doing)
    /\ UNCHANGED <<wayland, listener, hotkeys, binding, settings, files, mishaps>>

\* It has not stopped within two seconds: the new listener is told to stop instead.
StopTimesOut ==
    /\ gtk.at = "stopping" /\ Alive(gtk.previous)
    /\ listener' = [listener EXCEPT ![gtk.candidate].stop = TRUE]
    /\ At("unwinding")
    /\ mishaps' = mishaps \cup {"key"}
    /\ UNCHANGED <<wayland, hotkeys, binding, settings, files>>

\* The previous listener, which was told to stop, is the current one again; unless the new
\* one does not stop in time either.
Unwind ==
    /\ gtk.at = "unwinding"
    /\ \/ ~Alive(gtk.candidate) /\ hotkeys' = gtk.previous /\ binding' = gtk.key
       \/ Alive(gtk.candidate) /\ UNCHANGED <<hotkeys, binding>>
    /\ NotDone(gtk.doing)
    /\ UNCHANGED <<wayland, listener, settings, files>>

\* save_desktop_settings, which replaces the file.
Save ==
    /\ gtk.at = "saving"
    /\ settings' = gtk.other /\ saved' = gtk.other
    /\ gtk' = [gtk EXCEPT !.at = "saved", !.other = settings]
    /\ UNCHANGED <<wayland, listener, hotkeys, binding, autostart, mishaps>>

\* The settings to go back to.
Before == IF gtk.at = "saved" THEN gtk.other ELSE settings

SetAutostart ==
    /\ gtk.at = "saved"
    /\ autostart' = settings.login
    /\ gtk' = Rest
    /\ mishaps' = mishaps \ {"file"}
    /\ UNCHANGED <<wayland, listener, hotkeys, binding, settings, saved>>

\* Fault: the settings are put back, but not the key.
SaveFailsKeepsKey ==
    /\ gtk.at \in {"saving", "saved"}
    /\ mishaps' = IF gtk.at = "saved" THEN mishaps \cup {"file"} ELSE mishaps
    /\ settings' = Before
    /\ gtk' = RestWith(Before)
    /\ UNCHANGED <<wayland, listener, hotkeys, binding, files>>

\* One of them raises: the settings from before are in effect, and their key is grabbed
\* again.  Settings that had been saved by then stay in the file.
SaveFails ==
    /\ gtk.at \in {"saving", "saved"}
    /\ mishaps' = IF gtk.at = "saved" THEN mishaps \cup {"file"} ELSE mishaps
    /\ settings' = Before
    /\ IF wayland \/ (hotkeys # None /\ binding = Before.hotkey)
       THEN gtk' = RestWith(Before) /\ UNCHANGED listener
       ELSE Launch("rollback", Before, Before.hotkey)
    /\ UNCHANGED <<wayland, hotkeys, binding, files>>

\* The client is closed or killed, and its threads with it; it starts with what
\* load_desktop_settings returns: the file, or the defaults when it is missing, cannot be
\* read, is no JSON object of this schema or has a field too many.
Restart ==
    /\ listener' = [l \in Listeners |-> Unused]
    /\ hotkeys' = None /\ binding' = None
    /\ settings' \in {saved, Defaults}
    /\ gtk' = [RestWith(settings') EXCEPT !.at = "boot"]
    /\ mishaps' = (mishaps \ {"key"}) \cup
                  (IF gtk.at = "saved" \/ settings' # saved THEN {"file"} ELSE {})
    /\ UNCHANGED <<wayland, files>>

-----------------------------------------------------------------------------
(* The thread of a listener.                                                 *)

\* At nothing of a listener that has ended does anybody look again.
Becomes(l, thread) ==
    /\ listener' = [listener EXCEPT ![l] = IF thread = "none" THEN Unused ELSE [@ EXCEPT !.thread = thread]]
    /\ UNCHANGED <<wayland, hotkeys, binding, settings, files, gtk>>

\* Fault: the stop flag is cleared by the thread, and not before it is started.
GrabsAfresh(l) ==
    /\ listener[l].thread = "opening"
    /\ \A other \in Listeners : Grabbing(other) => listener[other].key # listener[l].key
    /\ listener' = [listener EXCEPT ![l].thread = "listening", ![l].stop = FALSE]
    /\ UNCHANGED <<wayland, hotkeys, binding, settings, files, gtk, mishaps>>

Grabs(l) ==
    /\ listener[l].thread = "opening"
    /\ \A other \in Listeners : Grabbing(other) => listener[other].key # listener[l].key
    /\ Becomes(l, "listening")
    /\ UNCHANGED mishaps

\* Another application has the key, or another listener, or the X server refuses anything
\* else.
GrabFails(l) ==
    /\ listener[l].thread = "opening"
    /\ Becomes(l, "none")
    /\ UNCHANGED mishaps

\* _listen looks every 20 ms whether it has been told to stop.
ListenEnds(l) ==
    /\ listener[l].thread = "listening" /\ listener[l].stop
    /\ Becomes(l, "releasing")
    /\ UNCHANGED mishaps

Release(l) ==
    /\ listener[l].thread = "releasing"
    /\ Becomes(l, "none")
    /\ UNCHANGED mishaps

\* An error of the X server ends the thread, and nobody is told.
ListenRaises(l) ==
    /\ listener[l].thread = "listening"
    /\ Becomes(l, "releasing")
    /\ mishaps' = mishaps \cup {"key"}

Thread(l) == Grabs(l) \/ GrabFails(l) \/ ListenEnds(l) \/ Release(l)

Gtk ==
    \/ Boot
    \/ Started
    \/ StartRaises
    \/ PreviousStopped
    \/ StopTimesOut
    \/ Unwind
    \/ Save
    \/ SetAutostart
    \/ SaveFails

Next ==
    \/ Gtk
    \/ \E goal \in Settings : Confirm(goal)
    \/ \E l \in Listeners : Thread(l) \/ ListenRaises(l)
    \/ Restart

Spec == Init /\ [][Next]_vars

(* Every wait of the GTK thread has an end, and a thread goes on; the user and*)
(* the other applications do as they like.                                   *)
Fairness == WF_vars(Gtk) /\ \A l \in Listeners : WF_vars(Thread(l))

LiveSpec == Spec /\ Fairness

-----------------------------------------------------------------------------
(* Properties.                                                               *)

\* Every variable keeps its type.
TypeOK ==
    /\ wayland \in BOOLEAN
    /\ listener \in [Listeners -> [key : Keys \cup {None}, stop : BOOLEAN,
                     thread : {"none", "opening", "listening", "releasing"}]]
    /\ hotkeys \in Listeners \cup {None} /\ binding \in Keys \cup {None}
    /\ settings \in Settings /\ saved \in Settings /\ autostart \in BOOLEAN
    /\ gtk \in [at : {"boot", "starting", "stopping", "unwinding", "saving", "saved", "rest"},
                doing : {"nothing", "boot", "confirm", "rollback"}, other : Settings,
                candidate : Listeners \cup {None}, previous : Listeners \cup {None},
                key : Keys \cup {None}]
    /\ mishaps \subseteq {"key", "file"}

\* A shortcut that has been replaced, or was never taken because it was late, starts no
\* recording: when the GTK thread is at rest, a listener that goes on is the current one.
NoGhostHotkey ==
    AtRest => \A l \in Listeners :
        listener[l].thread \in {"opening", "listening"} /\ ~listener[l].stop => l = hotkeys

\* What the settings say is in the file and in the autostart directory, and a key that is
\* grabbed at all is the one they name, through settings refused, saved or put back.  The
\* files are excepted from a crash or a failure between client.json and autostart, and from
\* a start that finds client.json unreadable, until settings are saved the next time; the
\* key from a stop that times out, a key that cannot be grabbed back and a listener that
\* dies, until the next start.  No key at all (hotkeys = None) is what Wayland leaves, and a
\* client none of whose starts of a listener has succeeded.
SettingsInEffect ==
    AtRest =>
        /\ "file" \notin mishaps => saved = settings /\ autostart = settings.login
        /\ "key" \notin mishaps /\ hotkeys # None =>
              /\ binding = settings.hotkey /\ listener[hotkeys].key = binding
              /\ listener[hotkeys].thread = "listening" /\ ~listener[hotkeys].stop

\* A key that has been given up is let go of, so that another application can have it.
GivenUpIsReleased == \A l \in Listeners : listener[l].stop ~> ~Alive(l)
=============================================================================
