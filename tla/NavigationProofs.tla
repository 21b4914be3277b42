-------------------------- MODULE NavigationProofs ---------------------------
(***************************************************************************)
(* Proofs about the thread of the dashboard application: its scenes are a  *)
(* path of the menu tree, it never waits for itself, what opens is what    *)
(* was chosen, and no click is divided between two views.                  *)
(***************************************************************************)
EXTENDS Navigation, SequenceTheorems, FiniteSetTheorems, TLAPS
-----------------------------------------------------------------------------
(* The waiting list of the loop.                                            *)

Items == {"input", "event"}
Once(list) == list \in Seq(Items) /\ \A i, j \in 1 .. Len(list) : list[i] = list[j] => i = j

(* Linking an item adds it once, at the back.                               *)
LEMMA LinkedOnce ==
    ASSUME NEW list, Once(list), NEW item \in Items, NEW q, NEW r, r = Linked(list, item, q)
    PROVE  /\ Once(r)
           /\ Contains(r, item) <=> q # <<>> \/ Contains(list, item)
           /\ \A other \in Items \ {item} : Contains(r, other) <=> Contains(list, other)
           /\ list # <<>> => r # <<>> /\ r[1] = list[1]
           /\ list = <<>> /\ q = <<>> => r = <<>>
           /\ list = <<>> /\ q # <<>> => r # <<>> /\ r[1] = item
<1>1. list \in Seq(Items) /\ Len(list) \in Nat
  BY DEF Once
<1>2. CASE q = <<>> \/ Contains(list, item)
  <2>1. r = list
    BY <1>2 DEF Linked
  <2>2. list = <<>> => ~ Contains(list, item)
    BY DEF Contains
  <2>3. QED
    BY <1>2, <2>1, <2>2
<1>3. CASE ~ (q = <<>> \/ Contains(list, item))
  <2>1. r = Append(list, item)
    BY <1>3 DEF Linked
  <2>2. r \in Seq(Items) /\ Len(r) = Len(list) + 1 /\ r[Len(list) + 1] = item
        /\ \A i \in 1 .. Len(list) : r[i] = list[i]
    BY <1>1, <2>1
  <2>3. \A i \in 1 .. Len(list) : list[i] # item
    BY <1>3 DEF Contains
  <2>4. Once(r)
    BY <1>1, <2>2, <2>3 DEF Once
  <2>5. Contains(r, item)
    BY <1>1, <2>2 DEF Contains
  <2>6. ASSUME NEW other \in Items \ {item} PROVE Contains(r, other) <=> Contains(list, other)
    BY <1>1, <2>2 DEF Contains
  <2>7. list # <<>> => Len(list) > 0
    BY <1>1
  <2>8. list = <<>> => Len(list) = 0
    OBVIOUS
  <2>9. r # <<>>
    BY <1>1, <2>2
  <2>10. (list # <<>> => r[1] = list[1]) /\ (list = <<>> => r[1] = item)
    BY <1>1, <2>2, <2>7, <2>8
  <2>11. QED
    BY <1>3, <2>4, <2>5, <2>6, <2>9, <2>10
<1>4. QED
  BY <1>2, <1>3

(* Without its head a list has the other item, if it has any.               *)
LEMMA TailOnce ==
    ASSUME NEW list, Once(list), list # <<>>
    PROVE  /\ Once(Tail(list)) /\ list[1] \in Items /\ Head(list) = list[1]
           /\ Contains(list, list[1]) /\ ~ Contains(Tail(list), list[1])
           /\ \A other \in Items \ {list[1]} : Contains(Tail(list), other) <=> Contains(list, other)
           /\ Tail(list) # <<>> => Tail(list)[1] # list[1] /\ Tail(list)[1] \in Items
<1> DEFINE rest == Tail(list)
<1>1. list \in Seq(Items) /\ Len(list) \in Nat /\ Len(list) > 0 /\ Head(list) = list[1]
  BY DEF Once
<1>2. rest \in Seq(Items) /\ Len(rest) = Len(list) - 1 /\ \A i \in 1 .. Len(list) - 1 : rest[i] = list[i + 1]
  BY <1>1
<1> HIDE DEF rest
<1>3. 1 \in 1 .. Len(list) /\ \A i \in 1 .. Len(list) - 1 : i + 1 \in 1 .. Len(list) /\ i + 1 # 1
  BY <1>1
<1>4. list[1] \in Items /\ Contains(list, list[1])
  BY <1>1, <1>3 DEF Contains
<1>5. \A i \in 1 .. Len(list) - 1 : rest[i] # list[1]
  BY <1>2, <1>3 DEF Once
<1>6. Once(rest)
  BY <1>1, <1>2, <1>3 DEF Once
<1>7. ~ Contains(rest, list[1])
  BY <1>2, <1>5 DEF Contains
<1>8. ASSUME NEW other \in Items \ {list[1]} PROVE Contains(rest, other) <=> Contains(list, other)
  <2>1. ASSUME NEW i \in 1 .. Len(list), list[i] = other PROVE Contains(rest, other)
    <3>1. i # 1 /\ i - 1 \in 1 .. Len(list) - 1 /\ (i - 1) + 1 = i
      BY <1>1, <2>1
    <3>2. rest[i - 1] = list[i] /\ i - 1 \in 1 .. Len(rest)
      BY <1>2, <3>1
    <3>3. QED
      BY <2>1, <3>2 DEF Contains
  <2>2. ASSUME NEW i \in 1 .. Len(rest), rest[i] = other PROVE Contains(list, other)
    BY <1>2, <1>3, <2>2 DEF Contains
  <2>3. QED
    BY <2>1, <2>2 DEF Contains
<1>9. ASSUME rest # <<>> PROVE rest[1] # list[1] /\ rest[1] \in Items
  <2>1. 1 \in 1 .. Len(list) - 1
    BY <1>1, <1>2, <1>9
  <2>2. QED
    BY <1>2, <1>5, <2>1
<1>10. QED
  BY <1>1, <1>4, <1>6, <1>7, <1>8, <1>9 DEF rest
-----------------------------------------------------------------------------
(* The scenes.                                                              *)

(* What the application keeps: a path of the menu tree, the view of the     *)
(* scene on top, and a cursor that is in its list.                          *)
KnownIds == Ids \cup {0}
AppType ==
    [scenes : Seq(Scenes), view : Views,
     state : [Menu : 0 .. 2, Settings : 0 .. 1, Canbus : KnownIds],
     menu : 0 .. 2, settings : 0 .. 1, canbus : Nat, items : Seq(Ids), id : KnownIds]
CursorIn(a) == a.canbus \in 0 .. Len(a.items) /\ (a.canbus # 0 => a.canbus < Len(a.items))
IsPath(scenes) ==
    /\ scenes # <<>> /\ scenes[1] = "Dashboard"
    /\ \A n \in 2 .. Len(scenes) :
          scenes[n] \in DOMAIN Parent /\ Parent[scenes[n]] = scenes[n - 1]
AppGood(a) == a \in AppType /\ CursorIn(a) /\ IsPath(a.scenes) /\ a.view = ViewOf[Top(a)]

(* The scenes by name, and their views.                                     *)
LEMMA SceneNames ==
    /\ Scenes = {"Dashboard", "Menu", "Canbus", "CanbusDetail", "Settings", "SettingsLcd",
                 "SettingsAbout"}
    /\ \A s \in Scenes : ViewOf[s] \in Views
    /\ ViewOf["SettingsAbout"] = ViewOf["Settings"]
    /\ DOMAIN Parent = Scenes \ {"Dashboard"}
    /\ Parent["Menu"] = "Dashboard" /\ Parent["Canbus"] = "Menu" /\ Parent["Settings"] = "Menu"
    /\ Parent["CanbusDetail"] = "Canbus" /\ Parent["SettingsLcd"] = "Settings"
    /\ Parent["SettingsAbout"] = "Settings"
BY DEF Scenes, ViewOf, Parent, Views

(* The fields of the record.                                                *)
LEMMA AppFields ==
    ASSUME NEW a \in AppType
    PROVE  /\ a.scenes \in Seq(Scenes) /\ a.view \in Views
           /\ a.state \in [Menu : 0 .. 2, Settings : 0 .. 1, Canbus : KnownIds]
           /\ a.state.Menu \in 0 .. 2 /\ a.state.Settings \in 0 .. 1 /\ a.state.Canbus \in KnownIds
           /\ a.menu \in 0 .. 2 /\ a.settings \in 0 .. 1 /\ a.canbus \in Nat
           /\ a.items \in Seq(Ids) /\ a.id \in KnownIds
BY DEF AppType

(* The cursor of the list of CAN messages is on an id, if there is one.     *)
LEMMA SelectedIsId ==
    ASSUME NEW a \in AppType, CursorIn(a)
    PROVE  SelectedId(a) \in KnownIds
<1>1. a.items \in Seq(Ids) /\ a.canbus \in Nat /\ Len(a.items) \in Nat
  BY AppFields
<1>2. CASE a.items = <<>>
  BY <1>2 DEF SelectedId, KnownIds
<1>3. CASE a.items # <<>>
  <2>1. a.canbus + 1 \in 1 .. Len(a.items)
    BY <1>1, <1>3 DEF CursorIn
  <2>2. QED
    BY <1>1, <1>3, <2>1 DEF SelectedId, KnownIds
<1>4. QED
  BY <1>2, <1>3

(* That id is one of the list.                                              *)
LEMMA SelectedListed ==
    ASSUME NEW a \in AppType, CursorIn(a), a.items # <<>>
    PROVE  Contains(a.items, SelectedId(a))
<1>1. a.items \in Seq(Ids) /\ a.canbus \in Nat /\ Len(a.items) \in Nat
  BY AppFields
<1>2. a.canbus + 1 \in 1 .. Len(a.items)
  BY <1>1 DEF CursorIn
<1>3. SelectedId(a) = a.items[a.canbus + 1]
  BY DEF SelectedId
<1>4. QED
  BY <1>2, <1>3 DEF Contains

(* A list that is rebuilt keeps its cursor on an id that is still there.    *)
LEMMA RebuiltKeeps ==
    ASSUME NEW a \in AppType, NEW items \in Seq(Ids), NEW id, NEW b, b = Rebuilt(a, items, id)
    PROVE  /\ b \in AppType /\ CursorIn(b)
           /\ b.scenes = a.scenes /\ b.view = a.view /\ b.state = a.state /\ b.menu = a.menu
           /\ b.settings = a.settings /\ b.id = a.id /\ b.items = items
           /\ Contains(items, id) => SelectedId(b) = id
<1> DEFINE place == IF Contains(items, id) THEN (CHOOSE n \in 1 .. Len(items) : items[n] = id) - 1 ELSE 0
<1>1. b = [a EXCEPT !.items = items, !.canbus = place]
  BY DEF Rebuilt
<1>2. Len(items) \in Nat
  OBVIOUS
<1>3. /\ place \in Nat /\ place \in 0 .. Len(items) /\ (place # 0 => place < Len(items))
      /\ Contains(items, id) => place + 1 \in 1 .. Len(items) /\ items[place + 1] = id
  <2>1. CASE Contains(items, id)
    <3>1. PICK n \in 1 .. Len(items) : n = CHOOSE m \in 1 .. Len(items) : items[m] = id
      BY <2>1 DEF Contains
    <3>2. items[n] = id
      BY <2>1, <3>1 DEF Contains
    <3>3. place = n - 1
      BY <2>1, <3>1
    <3> HIDE DEF place
    <3>4. QED
      BY <1>2, <3>2, <3>3
  <2>2. CASE ~ Contains(items, id)
    BY <1>2, <2>2
  <2>3. QED
    BY <2>1, <2>2
<1> HIDE DEF place
<1>4. b \in AppType
  BY <1>1, <1>3 DEF AppType
<1>5. /\ b.scenes = a.scenes /\ b.view = a.view /\ b.state = a.state /\ b.menu = a.menu
      /\ b.settings = a.settings /\ b.id = a.id /\ b.items = items /\ b.canbus = place
  BY <1>1 DEF AppType
<1>6. CursorIn(b)
  BY <1>3, <1>5 DEF CursorIn
<1>7. ASSUME Contains(items, id) PROVE SelectedId(b) = id
  <2>1. place + 1 \in 1 .. Len(items) /\ items[place + 1] = id
    BY <1>3, <1>7
  <2>2. items # <<>>
    BY <2>1
  <2>3. QED
    BY <1>5, <2>1, <2>2 DEF SelectedId
<1>8. QED
  BY <1>4, <1>5, <1>6, <1>7

(* Leaving a scene keeps a cursor, in the state of that scene.              *)
LEMMA Exited ==
    ASSUME NEW a \in AppType, CursorIn(a), NEW s \in Scenes, NEW b, b = OnExit(a, s)
    PROVE  /\ b \in AppType /\ CursorIn(b)
           /\ b.scenes = a.scenes /\ b.view = a.view /\ b.menu \in 0 .. 2
           /\ b.settings = a.settings /\ b.id = a.id /\ b.items = a.items
           /\ SelectedId(b) = SelectedId(a)
           /\ b.state.Menu = IF s = "Menu" THEN a.menu ELSE a.state.Menu
           /\ b.state.Settings = IF s = "Settings" THEN a.settings ELSE a.state.Settings
           /\ b.state.Canbus = IF s = "Canbus" THEN SelectedId(a) ELSE a.state.Canbus
<1>1. CASE s = "Menu"
  <2>1. b = [a EXCEPT !.state.Menu = a.menu, !.menu = 0]
    BY <1>1 DEF OnExit, MenuOnExit
  <2>2. b \in AppType
    <3>1. PICK c : c = [a EXCEPT !.state.Menu = a.menu]
      OBVIOUS
    <3>2. c \in AppType
      BY <3>1 DEF AppType
    <3>3. b = [c EXCEPT !.menu = 0]
      BY <2>1, <3>1
    <3>4. ASSUME NEW m \in 0 .. 2 PROVE [c EXCEPT !.menu = m] \in AppType
      BY <3>2 DEF AppType
    <3>5. 0 \in 0 .. 2
      OBVIOUS
    <3>6. QED
      BY <3>3, <3>4, <3>5
  <2>3. /\ b.scenes = a.scenes /\ b.view = a.view /\ b.menu = 0 /\ b.settings = a.settings
        /\ b.id = a.id /\ b.items = a.items /\ b.canbus = a.canbus
        /\ b.state.Menu = a.menu /\ b.state.Settings = a.state.Settings
        /\ b.state.Canbus = a.state.Canbus
    BY <2>1 DEF AppType
  <2>4. QED
    BY <1>1, <2>2, <2>3 DEF CursorIn, SelectedId
<1>2. CASE s = "Settings"
  <2>1. b = [a EXCEPT !.state.Settings = a.settings]
    BY <1>2 DEF OnExit, SettingsOnExit
  <2>2. b \in AppType
    BY <2>1 DEF AppType
  <2>3. /\ b.scenes = a.scenes /\ b.view = a.view /\ b.menu = a.menu /\ b.settings = a.settings
        /\ b.id = a.id /\ b.items = a.items /\ b.canbus = a.canbus
        /\ b.state.Menu = a.state.Menu /\ b.state.Settings = a.settings
        /\ b.state.Canbus = a.state.Canbus
    BY <2>1 DEF AppType
  <2>4. QED
    BY <1>2, <2>2, <2>3, AppFields DEF CursorIn, SelectedId
<1>3. CASE s = "Canbus"
  <2> DEFINE id == SelectedId(a)
  <2>1. b = [a EXCEPT !.state.Canbus = id] /\ id \in KnownIds
    BY <1>3, SelectedIsId DEF OnExit, CanbusOnExit
  <2> HIDE DEF id
  <2>2. b \in AppType
    BY <2>1 DEF AppType
  <2>3. /\ b.scenes = a.scenes /\ b.view = a.view /\ b.menu = a.menu /\ b.settings = a.settings
        /\ b.id = a.id /\ b.items = a.items /\ b.canbus = a.canbus
        /\ b.state.Menu = a.state.Menu /\ b.state.Settings = a.state.Settings
        /\ b.state.Canbus = id
    BY <2>1 DEF AppType
  <2>4. QED
    BY <1>3, <2>2, <2>3, AppFields DEF CursorIn, SelectedId, id
<1>4. CASE s \notin {"Menu", "Settings", "Canbus"}
  <2>1. b = a
    BY <1>4 DEF OnExit
  <2>2. QED
    BY <1>4, <2>1, AppFields
<1>5. QED
  BY <1>1, <1>2, <1>3, <1>4

(* Entering a scene shows its view, with the cursor where it was.           *)
LEMMA Entered ==
    ASSUME NEW a \in AppType, CursorIn(a), NEW s \in Scenes, NEW items \in Seq(Ids),
           NEW b, b = OnEnter(a, s, items)
    PROVE  /\ b \in AppType /\ CursorIn(b)
           /\ b.scenes = a.scenes /\ b.state = a.state /\ b.id = a.id
           /\ b.view = IF s = "SettingsAbout" THEN a.view ELSE ViewOf[s]
           /\ s = "Menu" => b.menu = a.state.Menu
           /\ s = "Settings" => b.settings = a.state.Settings
           /\ s = "Canbus" => b.items = items
                              /\ (Contains(items, a.state.Canbus) => SelectedId(b) = a.state.Canbus)
           /\ s # "Canbus" => b.items = a.items
<1>1. CASE s = "Menu"
  <2>1. b = [[a EXCEPT !.menu = a.state.Menu] EXCEPT !.view = ViewOf["Menu"]]
    BY <1>1 DEF OnEnter, MenuOnEnter, Showing
  <2>2. b \in AppType /\ b.canbus = a.canbus /\ b.items = a.items
    BY <2>1, SceneNames DEF AppType
  <2>3. /\ b.scenes = a.scenes /\ b.state = a.state /\ b.id = a.id /\ b.view = ViewOf["Menu"]
        /\ b.menu = a.state.Menu
    BY <2>1 DEF AppType
  <2>4. QED
    BY <1>1, <2>2, <2>3 DEF CursorIn
<1>2. CASE s = "Settings"
  <2>1. b = [[a EXCEPT !.settings = a.state.Settings] EXCEPT !.view = ViewOf["Settings"]]
    BY <1>2 DEF OnEnter, SettingsOnEnter, Showing
  <2>2. b \in AppType /\ b.canbus = a.canbus /\ b.items = a.items
    BY <2>1, SceneNames DEF AppType
  <2>3. /\ b.scenes = a.scenes /\ b.state = a.state /\ b.id = a.id /\ b.view = ViewOf["Settings"]
        /\ b.settings = a.state.Settings
    BY <2>1 DEF AppType
  <2>4. QED
    BY <1>2, <2>2, <2>3 DEF CursorIn
<1>3. CASE s = "Canbus"
  <2>1. PICK c : c = Rebuilt(a, items, a.state.Canbus)
    OBVIOUS
  <2>2. b = [c EXCEPT !.view = ViewOf["Canbus"]]
    BY <1>3, <2>1 DEF OnEnter, CanbusOnEnter, Showing
  <2>3. /\ c \in AppType /\ CursorIn(c) /\ c.scenes = a.scenes /\ c.state = a.state
        /\ c.id = a.id /\ c.items = items
        /\ Contains(items, a.state.Canbus) => SelectedId(c) = a.state.Canbus
    BY <2>1, RebuiltKeeps
  <2>4. b \in AppType
    BY <2>2, <2>3, SceneNames DEF AppType
  <2>5. /\ b.scenes = a.scenes /\ b.state = a.state /\ b.id = a.id /\ b.view = ViewOf["Canbus"]
        /\ b.items = items /\ b.canbus = c.canbus
    BY <2>2, <2>3 DEF AppType
  <2>6. QED
    BY <1>3, <2>3, <2>4, <2>5 DEF CursorIn, SelectedId
<1>4. CASE s = "SettingsAbout"
  BY <1>4 DEF OnEnter
<1>5. CASE s \notin {"Menu", "Settings", "Canbus", "SettingsAbout"}
  <2>1. b = [a EXCEPT !.view = ViewOf[s]]
    BY <1>5 DEF OnEnter, Showing
  <2>2. b \in AppType /\ b.canbus = a.canbus /\ b.items = a.items
    BY <2>1, SceneNames DEF AppType
  <2>3. b.scenes = a.scenes /\ b.state = a.state /\ b.id = a.id /\ b.view = ViewOf[s]
    BY <2>1 DEF AppType
  <2>4. QED
    BY <1>5, <2>2, <2>3 DEF CursorIn
<1>6. QED
  BY <1>1, <1>2, <1>3, <1>4, <1>5

(* What a change of scene does to the rest: the scene that is left keeps    *)
(* its cursor, and the one that is entered has the cursor it kept.          *)
Moves(a, b, items) ==
    /\ b.id = a.id
    /\ b.state.Menu = IF Top(a) = "Menu" THEN a.menu ELSE a.state.Menu
    /\ b.state.Settings = IF Top(a) = "Settings" THEN a.settings ELSE a.state.Settings
    /\ b.state.Canbus = IF Top(a) = "Canbus" THEN SelectedId(a) ELSE a.state.Canbus
    /\ Top(b) = "Menu" => b.menu = b.state.Menu
    /\ Top(b) = "Settings" => b.settings = b.state.Settings
    /\ Top(b) = "Canbus" => b.items = items
                            /\ (Contains(items, b.state.Canbus) => SelectedId(b) = b.state.Canbus)
    /\ Top(b) # "Canbus" => b.items = a.items

(* The scene on top is a scene, and the first is the dashboard.             *)
LEMMA TopIsScene ==
    ASSUME NEW a, AppGood(a)
    PROVE  /\ Top(a) \in Scenes /\ a.scenes \in Seq(Scenes) /\ Len(a.scenes) \in Nat
           /\ Len(a.scenes) > 0 /\ Top(a) = a.scenes[Len(a.scenes)]
           /\ Top(a) # "Dashboard" => Len(a.scenes) > 1
<1>1. a.scenes \in Seq(Scenes) /\ a.scenes # <<>> /\ a.scenes[1] = "Dashboard"
  BY AppFields DEF AppGood, IsPath
<1>2. Len(a.scenes) \in Nat /\ Len(a.scenes) > 0
  BY <1>1
<1>3. Top(a) = a.scenes[Len(a.scenes)]
  BY DEF Top, Last
<1>4. QED
  BY <1>1, <1>2, <1>3

(* Entering a scene of the parent relation puts it on the stack and enters  *)
(* its view.                                                                *)
LEMMA GoesUp ==
    ASSUME NEW a, AppGood(a), NEW s \in DOMAIN Parent, Parent[s] = Top(a),
           NEW items \in Seq(Ids), NEW b, b = NextScene(a, s, items)
    PROVE  AppGood(b) /\ Top(b) = s /\ Moves(a, b, items)
<1>1. /\ Top(a) \in Scenes /\ a.scenes \in Seq(Scenes) /\ Len(a.scenes) \in Nat
      /\ Len(a.scenes) > 0 /\ Top(a) = a.scenes[Len(a.scenes)]
  BY TopIsScene
<1>2. a \in AppType /\ CursorIn(a) /\ IsPath(a.scenes) /\ a.view = ViewOf[Top(a)] /\ s \in Scenes
  BY SceneNames DEF AppGood
<1>3. PICK c : c = OnExit(a, Top(a))
  OBVIOUS
<1>4. /\ c \in AppType /\ CursorIn(c)
      /\ c.scenes = a.scenes /\ c.view = a.view /\ c.id = a.id /\ c.items = a.items
      /\ c.state.Menu = IF Top(a) = "Menu" THEN a.menu ELSE a.state.Menu
      /\ c.state.Settings = IF Top(a) = "Settings" THEN a.settings ELSE a.state.Settings
      /\ c.state.Canbus = IF Top(a) = "Canbus" THEN SelectedId(a) ELSE a.state.Canbus
  <2>1. PICK u \in Scenes : u = Top(a)
    BY <1>1
  <2>2. c = OnExit(a, u)
    BY <1>3, <2>1
  <2>3. /\ c \in AppType /\ CursorIn(c)
        /\ c.scenes = a.scenes /\ c.view = a.view /\ c.id = a.id /\ c.items = a.items
        /\ c.state.Menu = IF u = "Menu" THEN a.menu ELSE a.state.Menu
        /\ c.state.Settings = IF u = "Settings" THEN a.settings ELSE a.state.Settings
        /\ c.state.Canbus = IF u = "Canbus" THEN SelectedId(a) ELSE a.state.Canbus
    BY <1>2, <2>2, Exited
  <2>4. QED
    BY <2>1, <2>3
<1>5. PICK path : path = Append(a.scenes, s)
  OBVIOUS
<1>6. /\ path \in Seq(Scenes) /\ Len(path) = Len(a.scenes) + 1 /\ path[Len(path)] = s
      /\ \A n \in 1 .. Len(a.scenes) : path[n] = a.scenes[n]
  BY <1>1, <1>2, <1>5
<1>7. PICK d : d = [c EXCEPT !.scenes = path]
  OBVIOUS
<1>8. /\ d \in AppType
      /\ d.scenes = path /\ d.view = c.view /\ d.id = c.id /\ d.state = c.state
      /\ d.canbus = c.canbus /\ d.items = c.items
  BY <1>4, <1>6, <1>7 DEF AppType
<1>9. CursorIn(d)
  BY <1>4, <1>8 DEF CursorIn
<1>10. b = OnEnter(d, s, items)
  BY <1>3, <1>4, <1>5, <1>7 DEF NextScene
<1>11. /\ b \in AppType /\ CursorIn(b)
       /\ b.scenes = path /\ b.state = c.state /\ b.id = a.id
       /\ b.view = IF s = "SettingsAbout" THEN a.view ELSE ViewOf[s]
       /\ s = "Menu" => b.menu = b.state.Menu
       /\ s = "Settings" => b.settings = b.state.Settings
       /\ s = "Canbus" => b.items = items
                          /\ (Contains(items, b.state.Canbus) => SelectedId(b) = b.state.Canbus)
       /\ s # "Canbus" => b.items = a.items
  <2>1. /\ b \in AppType /\ CursorIn(b)
        /\ b.scenes = d.scenes /\ b.state = d.state /\ b.id = d.id
        /\ b.view = IF s = "SettingsAbout" THEN d.view ELSE ViewOf[s]
        /\ s = "Menu" => b.menu = d.state.Menu
        /\ s = "Settings" => b.settings = d.state.Settings
        /\ s = "Canbus" => b.items = items
                           /\ (Contains(items, d.state.Canbus) => SelectedId(b) = d.state.Canbus)
        /\ s # "Canbus" => b.items = d.items
    BY <1>2, <1>8, <1>9, <1>10, Entered
  <2>2. QED
    BY <1>4, <1>8, <2>1
<1>12. Top(b) = s
  BY <1>6, <1>11 DEF Top, Last
<1>13. IsPath(path)
  <2>1. path # <<>> /\ path[1] = "Dashboard"
    BY <1>1, <1>2, <1>6 DEF IsPath
  <2>2. ASSUME NEW n \in 2 .. Len(path)
        PROVE  path[n] \in DOMAIN Parent /\ Parent[path[n]] = path[n - 1]
    <3>1. CASE n = Len(path)
      BY <1>1, <1>6, <3>1
    <3>2. CASE n # Len(path)
      <4>1. n \in 2 .. Len(a.scenes) /\ n \in 1 .. Len(a.scenes) /\ n - 1 \in 1 .. Len(a.scenes)
        BY <1>1, <1>6, <3>2
      <4>2. QED
        BY <1>2, <1>6, <4>1 DEF IsPath
    <3>3. QED
      BY <3>1, <3>2
  <2>3. QED
    BY <2>1, <2>2 DEF IsPath
<1>14. b.view = ViewOf[s]
  BY <1>2, <1>11, SceneNames
<1>15. AppGood(b)
  BY <1>11, <1>12, <1>13, <1>14 DEF AppGood
<1>16. Moves(a, b, items)
  BY <1>4, <1>11, <1>12 DEF Moves
<1>17. QED
  BY <1>12, <1>15, <1>16

(* Back from any scene but the first leads to its parent.                   *)
LEMMA GoesBack ==
    ASSUME NEW a, AppGood(a), Top(a) # "Dashboard",
           NEW items \in Seq(Ids), NEW b, b = PreviousScene(a, items)
    PROVE  AppGood(b) /\ Top(b) = Parent[Top(a)] /\ Top(a) \in DOMAIN Parent /\ Moves(a, b, items)
<1>1. /\ Top(a) \in Scenes /\ a.scenes \in Seq(Scenes) /\ Len(a.scenes) \in Nat
      /\ Len(a.scenes) > 1 /\ Top(a) = a.scenes[Len(a.scenes)]
  BY TopIsScene
<1>2. a \in AppType /\ CursorIn(a) /\ IsPath(a.scenes)
  BY DEF AppGood
<1>3. PICK path : path = Front(a.scenes)
  OBVIOUS
<1>4. /\ path \in Seq(Scenes) /\ Len(path) = Len(a.scenes) - 1
      /\ \A n \in 1 .. Len(a.scenes) - 1 : path[n] = a.scenes[n]
  <2>1. path = SubSeq(a.scenes, 1, Len(a.scenes) - 1)
    BY <1>3 DEF Front
  <2>2. QED
    BY <1>1, <2>1, SubSeqProperties
<1>5. PICK c : c = [a EXCEPT !.scenes = path]
  OBVIOUS
<1>6. /\ c \in AppType
      /\ c.scenes = path /\ c.view = a.view /\ c.id = a.id /\ c.state = a.state
      /\ c.canbus = a.canbus /\ c.items = a.items /\ c.menu = a.menu /\ c.settings = a.settings
  BY <1>2, <1>4, <1>5 DEF AppType
<1>7. CursorIn(c) /\ SelectedId(c) = SelectedId(a)
  BY <1>2, <1>6 DEF CursorIn, SelectedId
<1>8. Top(c) = path[Len(path)] /\ Len(path) \in 1 .. Len(a.scenes) - 1
  BY <1>1, <1>4, <1>6 DEF Top, Last
<1>9. Top(a) \in DOMAIN Parent /\ Top(c) = Parent[Top(a)] /\ Top(c) \in Scenes
  <2>1. Len(a.scenes) \in 2 .. Len(a.scenes)
    BY <1>1
  <2>2. a.scenes[Len(a.scenes)] \in DOMAIN Parent
        /\ Parent[a.scenes[Len(a.scenes)]] = a.scenes[Len(a.scenes) - 1]
    BY <1>2, <2>1 DEF IsPath
  <2>3. Top(c) = a.scenes[Len(a.scenes) - 1]
    BY <1>4, <1>8
  <2>4. path[Len(path)] \in Scenes
    BY <1>4, <1>8
  <2>5. QED
    BY <1>1, <1>8, <2>2, <2>3, <2>4
<1>10. PICK d : d = OnExit(c, Top(a))
  OBVIOUS
<1>11. /\ d \in AppType /\ CursorIn(d)
       /\ d.scenes = path /\ d.id = a.id /\ d.items = a.items
       /\ d.state.Menu = IF Top(a) = "Menu" THEN a.menu ELSE a.state.Menu
       /\ d.state.Settings = IF Top(a) = "Settings" THEN a.settings ELSE a.state.Settings
       /\ d.state.Canbus = IF Top(a) = "Canbus" THEN SelectedId(a) ELSE a.state.Canbus
  <2>1. PICK u \in Scenes : u = Top(a)
    BY <1>1
  <2>2. d = OnExit(c, u)
    BY <1>10, <2>1
  <2>3. /\ d \in AppType /\ CursorIn(d)
        /\ d.scenes = c.scenes /\ d.id = c.id /\ d.items = c.items
        /\ d.state.Menu = IF u = "Menu" THEN c.menu ELSE c.state.Menu
        /\ d.state.Settings = IF u = "Settings" THEN c.settings ELSE c.state.Settings
        /\ d.state.Canbus = IF u = "Canbus" THEN SelectedId(c) ELSE c.state.Canbus
    BY <1>6, <1>7, <2>2, Exited
  <2>4. QED
    BY <1>6, <1>7, <2>1, <2>3
<1>12. PICK s : s = Top(c)
  OBVIOUS
<1>13. s \in Scenes /\ s # "SettingsAbout" /\ s = Parent[Top(a)]
  BY <1>9, <1>12, SceneNames
<1>14. b = OnEnter(d, s, items)
  BY <1>3, <1>5, <1>10, <1>12 DEF PreviousScene
<1>15. /\ b \in AppType /\ CursorIn(b)
       /\ b.scenes = d.scenes /\ b.state = d.state /\ b.id = d.id
       /\ b.view = ViewOf[s]
       /\ s = "Menu" => b.menu = b.state.Menu
       /\ s = "Settings" => b.settings = b.state.Settings
       /\ s = "Canbus" => b.items = items
                          /\ (Contains(items, b.state.Canbus) => SelectedId(b) = b.state.Canbus)
       /\ s # "Canbus" => b.items = d.items
  BY <1>11, <1>13, <1>14, Entered
<1>16. Top(b) = s
  BY <1>6, <1>11, <1>12, <1>15 DEF Top
<1>17. IsPath(path)
  <2>1. path # <<>> /\ path[1] = "Dashboard"
    BY <1>1, <1>2, <1>4 DEF IsPath
  <2>2. ASSUME NEW n \in 2 .. Len(path)
        PROVE  path[n] \in DOMAIN Parent /\ Parent[path[n]] = path[n - 1]
    <3>1. /\ n \in 2 .. Len(a.scenes) /\ n \in 1 .. Len(a.scenes) - 1
          /\ n - 1 \in 1 .. Len(a.scenes) - 1
      BY <1>1, <1>4
    <3>2. QED
      BY <1>2, <1>4, <3>1 DEF IsPath
  <2>3. QED
    BY <2>1, <2>2 DEF IsPath
<1>18. AppGood(b)
  BY <1>11, <1>15, <1>16, <1>17 DEF AppGood
<1>19. Moves(a, b, items)
  BY <1>11, <1>15, <1>16 DEF Moves
<1>20. QED
  BY <1>9, <1>13, <1>16, <1>18, <1>19
-----------------------------------------------------------------------------
(* The views.                                                               *)

(* The scene that a view belongs to.                                        *)
LEMMA ViewScenes ==
    ASSUME NEW s \in Scenes
    PROVE  /\ ViewOf[s] = "dashboard" <=> s = "Dashboard"
           /\ ViewOf[s] = "menu" <=> s = "Menu"
           /\ ViewOf[s] = "canbusSubmenu" <=> s = "Canbus"
           /\ ViewOf[s] = "submenu" <=> s = "Settings" \/ s = "SettingsAbout"
           /\ ViewOf[s] # "none"
BY SceneNames DEF ViewOf

(* An input moves a cursor at most.                                         *)
LEMMA MovedKeeps ==
    ASSUME NEW a \in AppType, CursorIn(a), NEW v, NEW i, NEW b, b = Moved(a, v, i)
    PROVE  /\ b \in AppType /\ CursorIn(b)
           /\ b.scenes = a.scenes /\ b.view = a.view /\ b.state = a.state /\ b.id = a.id
           /\ b.items = a.items
<1>1. /\ a.menu \in 0 .. 2 /\ a.settings \in 0 .. 1 /\ a.canbus \in Nat
      /\ a.items \in Seq(Ids) /\ Len(a.items) \in Nat
  BY AppFields
<1>2. Step(a.menu, 3) \in 0 .. 2 /\ Step(a.settings, 2) \in 0 .. 1
  BY <1>1 DEF Step
<1> DEFINE count == IF a.items = <<>> THEN 1 ELSE Len(a.items)
<1>3. Step(a.canbus, count) \in Nat /\ Step(a.canbus, count) \in 0 .. Len(a.items)
      /\ (Step(a.canbus, count) # 0 => Step(a.canbus, count) < Len(a.items))
  BY <1>1 DEF Step
<1> HIDE DEF count
<1>4. \/ b = a
      \/ b = [a EXCEPT !.menu = Step(a.menu, 3)]
      \/ b = [a EXCEPT !.settings = Step(a.settings, 2)]
      \/ b = [a EXCEPT !.canbus = Step(a.canbus, count)]
  BY DEF Moved, MenuMoved, SubmenuMoved, count
<1>5. CASE b = a
  BY <1>5
<1>6. CASE b = [a EXCEPT !.menu = Step(a.menu, 3)]
  BY <1>2, <1>6 DEF AppType, CursorIn
<1>7. CASE b = [a EXCEPT !.settings = Step(a.settings, 2)]
  BY <1>2, <1>7 DEF AppType, CursorIn
<1>8. CASE b = [a EXCEPT !.canbus = Step(a.canbus, count)]
  BY <1>3, <1>8 DEF AppType, CursorIn
<1>9. QED
  BY <1>4, <1>5, <1>6, <1>7, <1>8

(* What is chosen is kept, before the event is sent.                        *)
LEMMA ChosenKeeps ==
    ASSUME NEW a \in AppType, CursorIn(a), NEW v \in Views, NEW b, b = Chosen(a, v)
    PROVE  /\ b \in AppType /\ CursorIn(b) /\ SelectedId(b) = SelectedId(a)
           /\ b.scenes = a.scenes /\ b.view = a.view /\ b.menu = a.menu /\ b.settings = a.settings
           /\ b.items = a.items
           /\ b.state.Menu = IF v = "menu" THEN a.menu ELSE a.state.Menu
           /\ b.state.Settings = IF v = "submenu" THEN a.settings ELSE a.state.Settings
           /\ b.id = IF v = "canbusSubmenu" THEN SelectedId(a) ELSE a.id
<1>1. CASE v = "menu"
  <2>1. b = [a EXCEPT !.state.Menu = a.menu]
    BY <1>1 DEF Chosen
  <2>2. b \in AppType
    BY <2>1 DEF AppType
  <2>3. QED
    BY <1>1, <2>1, <2>2 DEF AppType, CursorIn, SelectedId
<1>2. CASE v = "submenu"
  <2>1. b = [a EXCEPT !.state.Settings = a.settings]
    BY <1>2 DEF Chosen
  <2>2. b \in AppType
    BY <2>1 DEF AppType
  <2>3. QED
    BY <1>2, <2>1, <2>2 DEF AppType, CursorIn, SelectedId
<1>3. CASE v = "canbusSubmenu"
  <2> DEFINE id == SelectedId(a)
  <2>1. b = [a EXCEPT !.id = id] /\ id \in KnownIds
    BY <1>3, SelectedIsId DEF Chosen
  <2> HIDE DEF id
  <2>2. b \in AppType
    BY <2>1 DEF AppType
  <2>3. /\ b.scenes = a.scenes /\ b.view = a.view /\ b.menu = a.menu /\ b.settings = a.settings
        /\ b.state = a.state /\ b.id = id /\ b.items = a.items /\ b.canbus = a.canbus
    BY <2>1 DEF AppType
  <2>4. QED
    BY <1>3, <2>2, <2>3 DEF CursorIn, SelectedId, id
<1>4. CASE v \notin {"menu", "submenu", "canbusSubmenu"}
  <2>1. b = a
    BY <1>4 DEF Chosen
  <2>2. QED
    BY <1>4, <2>1
<1>5. QED
  BY <1>1, <1>2, <1>3, <1>4

(* A snapshot has every id that the list has.                               *)
LEMMA SnapshotIs ==
    ASSUME NEW items \in Snapshots
    PROVE  /\ items \in Seq(Ids)
           /\ \A id : Contains(app.items, id) => Contains(items, id)
<1>1. PICK n \in 0 .. Cardinality(Ids) : items \in [1 .. n -> Ids]
  BY DEF Snapshots
<1>2. ToSet(app.items) \subseteq ToSet(items)
  BY DEF Snapshots
<1>3. Cardinality(Ids) \in Nat
  BY NavigationAssumption, FS_CardinalityType
<1>4. items \in Seq(Ids)
  BY <1>1, <1>3
<1>5. \A s, id : Contains(s, id) => id \in ToSet(s)
  BY DEF Contains, ToSet
<1>6. \A id : id \in ToSet(items) => Contains(items, id)
  BY DEF Contains, ToSet
<1>7. QED
  BY <1>2, <1>4, <1>5, <1>6
-----------------------------------------------------------------------------
(* The inductive invariant.                                                 *)

(* At most two events wait, and an input is handled only while one waits at *)
(* most: the loop serves both queues in turn, so between an event and its   *)
(* handler there is one input, which sends one event at most.               *)
First(list, item) == list # <<>> /\ list[1] = item
QueuesInv ==
    /\ Contains(waiting, "event") => events # <<>>
    /\ Contains(waiting, "input") => inputs # <<>>
    /\ pc # "about" /\ events # <<>> => Contains(waiting, "event")
    /\ pc = "about" => ~ Contains(waiting, "event")
    /\ pc \in Keys => Len(events) <= 1 /\ (events # <<>> => First(waiting, "event"))
    /\ Len(events) <= 2
    /\ Len(events) = 2 => pc = "wait" /\ First(waiting, "event")

(* The thread sends only of scenes that handle it, with the cursor on what  *)
(* it has stored, and it is in About while About is on top.                 *)
Senders == {"Dashboard", "Menu", "Settings", "Canbus"}
SendsInv ==
    /\ pc = "about" <=> Top(app) = "SettingsAbout"
    /\ pc \in Keys =>
        /\ pc = "ok" /\ Top(app) \in Senders
        /\ Top(app) = "Menu" => app.state.Menu = app.menu
        /\ Top(app) = "Settings" => app.state.Settings = app.settings
        /\ Top(app) = "Canbus" => app.id = SelectedId(app)

(* The choice of an event that waits is the one that is stored, and where   *)
(* an input may come before its handler, the one under the cursor too.      *)
CodeOf == [Dashboard |-> KeyNumber.ok, Menu |-> MenuSelected, Settings |-> SettingsSelected,
           Canbus |-> CanIdSelected]
Kept(e, a) ==
    /\ e.from = "Menu" => a.state.Menu = e.choice
    /\ e.from = "Settings" => a.state.Settings = e.choice
    /\ e.from = "Canbus" => a.id = e.choice
Under(e, a) ==
    e.from = Top(a) =>
        /\ e.from = "Menu" => a.menu = e.choice
        /\ e.from = "Settings" => a.settings = e.choice
        /\ e.from = "Canbus" => SelectedId(a) = e.choice
Sound(e, a) == e.from \in Senders /\ e.code = CodeOf[e.from] /\ Kept(e, a)
EventsInv ==
    /\ \A n \in 1 .. Len(events) : Sound(events[n], app)
    /\ Len(events) = 2 => events[2].from = Top(app) /\ Under(events[2], app)
    /\ Len(events) = 1 /\ (pc \in Keys \/ First(waiting, "input")) => Under(events[1], app)

QueueTypes ==
    /\ phase \in [Keys -> {"up", "down", "clicked", "long"}]
    /\ shown \subseteq Keys /\ held \subseteq Keys
    /\ inputs \in Seq([key : Keys, type : Types]) /\ Len(inputs) <= QueueLength
    /\ events \in Seq(Event) /\ Once(waiting)
    /\ pc \in Keys \cup {"wait", "about"}
    /\ target \in Views \cup {"none"} /\ pressedIn \in [Keys -> Views \cup {"none"}]
NavInv == QueueTypes /\ AppGood(app) /\ QueuesInv /\ SendsInv /\ EventsInv

(* The invariant says more than what TLC is asked.                          *)
LEMMA InvIsTypeOK == NavInv => TypeOK
<1> SUFFICES ASSUME NavInv PROVE TypeOK
  OBVIOUS
<1> USE DEF NavInv, QueueTypes
<1>1. app \in AppType /\ CursorIn(app)
  BY DEF AppGood
<1>2. app.menu \in 0 .. 2 /\ app.settings \in 0 .. 1
  BY <1>1, AppFields
<1>3. waiting \in Seq({"input", "event"}) /\ IsInjective(waiting)
  BY DEF Once, Items, IsInjective
<1>4. Len(events) <= QueueLength
  BY NavigationAssumption DEF QueuesInv
<1>5. QED
  BY <1>1, <1>2, <1>3, <1>4 DEF TypeOK, CursorIn

(* The thread starts on the dashboard, with nothing to do.                  *)
LEMMA InitKeeps == Init => NavInv
<1> SUFFICES ASSUME Init PROVE NavInv
  OBVIOUS
<1> USE DEF Init
<1>1. QueueTypes
  BY NavigationAssumption DEF QueueTypes, Once
<1>2. AppGood(app)
  <2>1. app.scenes = <<"Dashboard">> /\ app.view = "dashboard" /\ app.items = <<>> /\ app.canbus = 0
    OBVIOUS
  <2>2. "Dashboard" \in Scenes /\ ViewOf["Dashboard"] = "dashboard" /\ "dashboard" \in Views
    BY SceneNames DEF ViewOf
  <2>3. app \in AppType
    BY <2>2 DEF AppType, KnownIds
  <2>4. Top(app) = "Dashboard" /\ IsPath(app.scenes) /\ CursorIn(app)
    BY <2>1 DEF Top, Last, IsPath, CursorIn
  <2>5. QED
    BY <2>1, <2>2, <2>3, <2>4 DEF AppGood
<1>3. Top(app) = "Dashboard"
  BY DEF Top, Last
<1>4. ~ Contains(waiting, "event") /\ ~ Contains(waiting, "input") /\ Len(events) = 0
  BY DEF Contains
<1>5. QueuesInv /\ SendsInv /\ EventsInv
  BY <1>3, <1>4 DEF QueuesInv, SendsInv, EventsInv, Keys, Encoders
<1>6. QED
  BY <1>1, <1>2, <1>5 DEF NavInv

(* Inputs that come are put behind, and change nothing else.                *)
LEMMA PutKeeps ==
    ASSUME NavInv, NEW k \in Keys, NEW type \in Types, Put(k, type)
    PROVE  NavInv'
<1> USE DEF NavInv, Put
<1>1. /\ inputs' = Append(inputs, [key |-> k, type |-> type]) /\ Len(inputs) < QueueLength
      /\ waiting' = Linked(waiting, "input", inputs')
      /\ UNCHANGED <<events, pc, held, target, pressedIn, app>>
  BY DEF dispatcher
<1>2. inputs' \in Seq([key : Keys, type : Types]) /\ Len(inputs') <= QueueLength /\ inputs' # <<>>
  BY <1>1, NavigationAssumption DEF QueueTypes
<1>3. /\ Once(waiting') /\ Contains(waiting', "input")
      /\ Contains(waiting', "event") <=> Contains(waiting, "event")
      /\ waiting # <<>> => waiting' # <<>> /\ waiting'[1] = waiting[1]
  <2>1. Once(waiting) /\ "input" \in Items /\ "event" \in Items \ {"input"}
    BY DEF QueueTypes, Items
  <2>2. PICK r : r = waiting'
    OBVIOUS
  <2>3. PICK q : q = inputs'
    OBVIOUS
  <2>4. r = Linked(waiting, "input", q) /\ q # <<>>
    BY <1>1, <1>2, <2>2, <2>3
  <2>5. /\ Once(r) /\ Contains(r, "input")
        /\ Contains(r, "event") <=> Contains(waiting, "event")
        /\ waiting # <<>> => r # <<>> /\ r[1] = waiting[1]
    BY <2>1, <2>4, LinkedOnce
  <2>6. QED
    BY <2>2, <2>5
<1>4. waiting = <<>> => ~ Contains(waiting, "event")
  BY DEF Contains
<1>5. QueueTypes'
  <2>1. After(type) \in {"up", "down", "clicked", "long"}
    BY DEF After
  <2>2. phase' \in [Keys -> {"up", "down", "clicked", "long"}]
    BY <2>1 DEF QueueTypes, KeyEvent
  <2>3. shown' \subseteq Keys
    <3>1. CASE type = "Press"
      BY <3>1 DEF QueueTypes
    <3>2. CASE type = "Release"
      BY <3>2 DEF QueueTypes
    <3>3. CASE type \notin {"Press", "Release"}
      BY <3>3 DEF QueueTypes
    <3>4. QED
      BY <3>1, <3>2, <3>3
  <2>4. QED
    BY <1>1, <1>2, <1>3, <2>2, <2>3 DEF QueueTypes
<1>6. AppGood(app)' /\ SendsInv'
  BY <1>1 DEF SendsInv
<1>7. QueuesInv'
  BY <1>1, <1>2, <1>3 DEF QueuesInv, First
<1>8. EventsInv'
  <2>1. ASSUME Len(events) = 1, pc \notin Keys, First(waiting', "input") PROVE Under(events[1], app)
    <3>1. CASE pc = "about"
      <4>1. Top(app) = "SettingsAbout" /\ events[1].from \in Senders
        BY <2>1, <3>1 DEF SendsInv, EventsInv, Sound
      <4>2. QED
        BY <4>1 DEF Under, Senders
    <3>2. CASE pc # "about"
      <4>1. events # <<>>
        BY <2>1
      <4>2. Contains(waiting, "event") /\ waiting # <<>>
        BY <1>4, <3>2, <4>1 DEF QueuesInv
      <4>3. First(waiting, "input")
        BY <1>3, <2>1, <4>2 DEF First
      <4>4. QED
        BY <2>1, <4>3 DEF EventsInv
    <3>3. QED
      BY <3>1, <3>2
  <2>2. QED
    BY <1>1, <2>1 DEF EventsInv
<1>9. QED
  BY <1>5, <1>6, <1>7, <1>8

(* An event that the GUI withholds changes nothing but the key.             *)
LEMMA WithholdKeeps ==
    ASSUME NavInv, NEW k \in Keys, NEW type \in Types, Withhold(k, type)
    PROVE  NavInv'
<1>1. UNCHANGED <<shown, inputs, events, waiting, pc, held, target, pressedIn, app>>
  BY DEF Withhold, dispatcher
<1>2. After(type) \in {"up", "down", "clicked", "long"}
  BY DEF After
<1>3. phase' \in [Keys -> {"up", "down", "clicked", "long"}]
  BY <1>2 DEF NavInv, QueueTypes, Withhold, KeyEvent
<1>4. QED
  BY <1>1, <1>3 DEF NavInv, QueueTypes, QueuesInv, SendsInv, EventsInv

(* A change of scene keeps the choice of an event that waits, whatever      *)
(* scene is on top when it comes.                                           *)
LEMMA MovesKeep ==
    ASSUME NEW a, NEW b, NEW items, Moves(a, b, items), NEW e, Kept(e, a), Under(e, a)
    PROVE  Kept(e, b)
BY DEF Moves, Kept, Under

(* The view that gets an event is a view, if one does.                      *)
LEMMA RecipientIsView ==
    ASSUME NavInv, NEW i \in [key : Keys, type : Types]
    PROVE  /\ TargetAfter(i) \in Views \cup {"none"} /\ Recipient(i) \in Views \cup {"none"}
           /\ HeldAfter(i) \subseteq Keys
           /\ Delivered(i, Recipient(i)) \in [Keys -> Views \cup {"none"}]
<1>1. app.view \in Views /\ target \in Views \cup {"none"} /\ held \subseteq Keys
      /\ pressedIn \in [Keys -> Views \cup {"none"}] /\ i.key \in Keys
  BY AppFields DEF NavInv, AppGood, QueueTypes
<1>2. TargetAfter(i) \in Views \cup {"none"}
  BY <1>1 DEF TargetAfter
<1>3. Recipient(i) \in Views \cup {"none"}
  BY <1>2 DEF Recipient
<1>4. HeldAfter(i) \subseteq Keys
  <2>1. CASE i.type = "Press"
    BY <1>1, <2>1 DEF HeldAfter
  <2>2. CASE i.type = "Release"
    BY <1>1, <2>2 DEF HeldAfter
  <2>3. CASE i.type \notin {"Press", "Release"}
    BY <1>1, <2>3 DEF HeldAfter
  <2>4. QED
    BY <2>1, <2>2, <2>3
<1>5. ASSUME NEW v \in Views \cup {"none"}
      PROVE  Delivered(i, v) \in [Keys -> Views \cup {"none"}]
  BY <1>1, <1>5 DEF Delivered
<1>6. QED
  BY <1>2, <1>3, <1>4, <1>5

(* b is the application after the input i, which the view v answers by an   *)
(* event or not.                                                            *)
Answers(i, v, sends, b) ==
    /\ sends <=> v = app.view /\ Sends(app, v, i)
    /\ IF NavigatesBack(i, v)
       THEN \E items \in Snapshots : b = OnBack(app, items)
       ELSE b = IF sends THEN Chosen(app, v) ELSE Moved(app, v, i)

(* What an input does to the application while an event may wait: nothing   *)
(* that the event has to fear.  When the input sends an event of its own,   *)
(* the scene on top handles it.                                             *)
LEMMA InputOnApp ==
    ASSUME NavInv, pc = "wait", Len(events) <= 1, First(waiting, "input"),
           NEW i \in [key : Keys, type : Types], NEW v \in Views \cup {"none"}, NEW b,
           NEW sends \in BOOLEAN, Answers(i, v, sends, b)
    PROVE  /\ AppGood(b) /\ Top(b) # "SettingsAbout"
           /\ Len(events) = 1 => Kept(events[1], b)
           /\ sends => /\ Top(b) \in Senders /\ i.key = "ok"
                       /\ Top(b) = "Menu" => b.state.Menu = b.menu
                       /\ Top(b) = "Settings" => b.state.Settings = b.settings
                       /\ Top(b) = "Canbus" => b.id = SelectedId(b)
                       /\ Len(events) = 1 => Under(events[1], b)
<1>1. /\ AppGood(app) /\ app \in AppType /\ CursorIn(app) /\ Top(app) # "SettingsAbout"
      /\ app.view = ViewOf[Top(app)] /\ Top(app) \in Scenes /\ IsPath(app.scenes)
  <2>1. AppGood(app)
    BY DEF NavInv
  <2>2. PICK a : a = app
    OBVIOUS
  <2>3. Top(app) \in Scenes
    BY <2>1, <2>2, TopIsScene
  <2>4. QED
    BY <2>1, <2>3 DEF NavInv, SendsInv, AppGood
<1>2. Len(events) = 1 => Kept(events[1], app) /\ Under(events[1], app)
  BY DEF NavInv, EventsInv, Sound
<1>3. CASE NavigatesBack(i, v)
  <2>1. PICK items \in Snapshots : b = OnBack(app, items)
    BY <1>3 DEF Answers
  <2>2. ~ sends
    BY <1>3 DEF NavigatesBack, Sends, Answers
  <2>3. CASE Top(app) = "Dashboard"
    BY <1>1, <1>2, <2>1, <2>2, <2>3 DEF OnBack
  <2>4. CASE Top(app) # "Dashboard"
    <3>1. b = PreviousScene(app, items) /\ items \in Seq(Ids)
      BY <2>1, <2>4, SnapshotIs DEF OnBack
    <3>2. /\ AppGood(b) /\ Top(b) = Parent[Top(app)] /\ Top(app) \in DOMAIN Parent
          /\ Moves(app, b, items)
      BY <1>1, <2>4, <3>1, GoesBack
    <3>3. Top(b) # "SettingsAbout"
      BY <3>2, SceneNames
    <3>4. Len(events) = 1 => Kept(events[1], b)
      BY <1>2, <3>2, MovesKeep
    <3>5. QED
      BY <2>2, <3>2, <3>3, <3>4
  <2>5. QED
    BY <2>3, <2>4
<1>4. CASE ~ NavigatesBack(i, v) /\ sends
  <2>1. b = Chosen(app, v) /\ v = app.view /\ Sends(app, v, i) /\ v \in Views
    BY <1>1, <1>4, AppFields DEF Answers
  <2>2. /\ b \in AppType /\ CursorIn(b) /\ SelectedId(b) = SelectedId(app)
        /\ b.scenes = app.scenes /\ b.view = app.view /\ b.menu = app.menu
        /\ b.settings = app.settings
        /\ b.state.Menu = IF v = "menu" THEN app.menu ELSE app.state.Menu
        /\ b.state.Settings = IF v = "submenu" THEN app.settings ELSE app.state.Settings
        /\ b.id = IF v = "canbusSubmenu" THEN SelectedId(app) ELSE app.id
    BY <1>1, <2>1, ChosenKeeps
  <2>3. Top(b) = Top(app)
    BY <2>2 DEF Top
  <2>4. /\ v = "dashboard" <=> Top(app) = "Dashboard"
        /\ v = "menu" <=> Top(app) = "Menu"
        /\ v = "canbusSubmenu" <=> Top(app) = "Canbus"
        /\ v = "submenu" <=> Top(app) = "Settings"
    <3>1. PICK s \in Scenes : s = Top(app)
      BY <1>1
    <3>2. v = ViewOf[s] /\ s # "SettingsAbout"
      BY <1>1, <2>1, <3>1
    <3>3. QED
      BY <3>1, <3>2, ViewScenes
  <2>5. AppGood(b)
    BY <1>1, <2>2, <2>3 DEF AppGood
  <2>6. Top(b) \in Senders /\ i.key = "ok"
    BY <2>1, <2>3, <2>4 DEF Sends, Senders
  <2>7. Len(events) = 1 => Kept(events[1], b) /\ Under(events[1], b)
    BY <1>2, <2>2, <2>3, <2>4 DEF Kept, Under
  <2>8. QED
    BY <1>1, <2>2, <2>3, <2>4, <2>5, <2>6, <2>7
<1>5. CASE ~ NavigatesBack(i, v) /\ ~ sends
  <2>1. b = Moved(app, v, i)
    BY <1>5 DEF Answers
  <2>2. /\ b \in AppType /\ CursorIn(b)
        /\ b.scenes = app.scenes /\ b.view = app.view /\ b.state = app.state /\ b.id = app.id
    BY <1>1, <2>1, MovedKeeps
  <2>3. Top(b) = Top(app)
    BY <2>2 DEF Top
  <2>4. QED
    BY <1>1, <1>2, <1>5, <2>2, <2>3 DEF AppGood, Kept
<1>6. QED
  BY <1>3, <1>4, <1>5

(* An input is taken: the queues stay in turn.                              *)
LEMMA TakeInputKeeps ==
    ASSUME NavInv, TakeInput
    PROVE  /\ NavInv' /\ pc = "wait" /\ First(waiting, "input") /\ events' = events
           /\ events \in Seq(Event) /\ Len(events) \in Nat /\ Len(events) <= 1
           /\ events # <<>> => First(waiting', "event")
<1> USE DEF NavInv
<1>1. /\ pc = "wait" /\ waiting # <<>> /\ Once(waiting) /\ events' = events
      /\ inputs' = Tail(inputs) /\ UNCHANGED keys
  BY DEF TakeInput, QueueTypes
<1>2. waiting[1] = "input" /\ Contains(waiting, "input")
  BY <1>1, TailOnce DEF TakeInput
<1>3. /\ inputs # <<>> /\ events \in Seq(Event) /\ Len(events) \in Nat
      /\ Len(events) <= 1 /\ First(waiting, "input")
      /\ events # <<>> <=> Contains(waiting, "event")
  <2>1. events \in Seq(Event) /\ Len(events) \in Nat
    BY DEF QueueTypes
  <2>2. First(waiting, "input") /\ ~ First(waiting, "event")
    BY <1>1, <1>2 DEF First
  <2>3. inputs # <<>> /\ (events # <<>> <=> Contains(waiting, "event"))
    BY <1>1, <1>2 DEF QueuesInv
  <2>4. Len(events) <= 2 /\ Len(events) # 2
    BY <2>2 DEF QueuesInv
  <2>5. Len(events) \in Nat
    BY <2>1
  <2>6. Len(events) <= 1
    <3>1. PICK n \in Nat : n = Len(events)
      BY <2>5
    <3>2. n <= 2 /\ n # 2
      BY <2>4, <3>1
    <3>3. n <= 1
      BY <3>2
    <3>4. QED
      BY <3>1, <3>3
  <2>7. QED
    BY <2>1, <2>2, <2>3, <2>5, <2>6
<1>4. PICK i \in [key : Keys, type : Types] : i = Head(inputs)
  <2>1. inputs \in Seq([key : Keys, type : Types])
    BY DEF QueueTypes
  <2>2. Head(inputs) \in [key : Keys, type : Types]
    BY <1>3, <2>1, HeadTailProperties
  <2>3. QED
    BY <2>2
<1>5. inputs' \in Seq([key : Keys, type : Types]) /\ Len(inputs') <= QueueLength
  BY <1>1, <1>3, NavigationAssumption DEF QueueTypes
<1>6. PICK rest : rest = Tail(waiting)
  OBVIOUS
<1>7. /\ Once(rest) /\ ~ Contains(rest, "input")
      /\ Contains(rest, "event") <=> Contains(waiting, "event")
      /\ rest # <<>> => rest[1] = "event"
  BY <1>1, <1>2, <1>6, TailOnce DEF Items
<1>8. Contains(rest, "event") => rest # <<>>
  BY DEF Contains
<1>9. PICK q : q = inputs'
  OBVIOUS
<1>10. waiting' \in {rest, Linked(rest, "input", q)}
  BY <1>6, <1>9 DEF TakeInput
<1>11. /\ Once(waiting')
       /\ Contains(waiting', "event") <=> events # <<>>
       /\ Contains(waiting', "input") => inputs' # <<>>
       /\ events # <<>> => First(waiting', "event")
  <2>1. CASE waiting' = rest
    BY <1>3, <1>7, <1>8, <2>1 DEF First
  <2>2. CASE waiting' = Linked(rest, "input", q)
    <3>1. PICK r : r = Linked(rest, "input", q)
      OBVIOUS
    <3>2. "input" \in Items /\ "event" \in Items \ {"input"}
      BY DEF Items
    <3>3. /\ Once(r)
          /\ Contains(r, "input") <=> q # <<>> \/ Contains(rest, "input")
          /\ Contains(r, "event") <=> Contains(rest, "event")
          /\ rest # <<>> => r # <<>> /\ r[1] = rest[1]
      BY <1>7, <3>1, <3>2, LinkedOnce
    <3>4. QED
      BY <1>3, <1>7, <1>8, <1>9, <2>2, <3>1, <3>3 DEF First
  <2>3. QED
    BY <1>10, <2>1, <2>2
<1>12. events # <<>> => ~ First(waiting', "input")
  BY <1>11 DEF First
<1>13. CASE ~ Complementary(i)
  <2>1. UNCHANGED <<pc, held, target, pressedIn, app>>
    BY <1>4, <1>13 DEF TakeInput, dispatcher
  <2>2. QueueTypes'
    BY <1>1, <1>5, <1>11, <2>1 DEF QueueTypes, keys
  <2>3. AppGood(app)' /\ SendsInv'
    BY <2>1 DEF SendsInv
  <2>4. QueuesInv'
    BY <1>1, <1>3, <1>11, <2>1 DEF QueuesInv, Keys, Encoders
  <2>5. EventsInv'
    BY <1>1, <1>3, <1>12, <2>1 DEF EventsInv, Keys, Encoders
  <2>6. QED
    BY <1>1, <1>3, <1>11, <2>2, <2>3, <2>4, <2>5
<1>14. CASE Complementary(i)
  <2>1. PICK v : v = Recipient(i)
    OBVIOUS
  <2>2. PICK sends \in BOOLEAN : sends <=> v = app.view /\ Sends(app, v, i)
    OBVIOUS
  <2>3. /\ held' = HeldAfter(i) /\ target' = TargetAfter(i) /\ pressedIn' = Delivered(i, v)
        /\ pc' = IF sends THEN i.key ELSE "wait"
        /\ IF NavigatesBack(i, v)
           THEN \E items \in Snapshots : app' = OnBack(app, items)
           ELSE app' = IF sends THEN Chosen(app, v) ELSE Moved(app, v, i)
    BY <1>4, <1>14, <2>1, <2>2 DEF TakeInput
  <2>4. /\ held' \subseteq Keys /\ target' \in Views \cup {"none"} /\ v \in Views \cup {"none"}
        /\ pressedIn' \in [Keys -> Views \cup {"none"}]
    BY <2>1, <2>3, RecipientIsView
  <2>5. PICK b : b = app'
    OBVIOUS
  <2>6. Answers(i, v, sends, b)
    BY <2>2, <2>3, <2>5 DEF Answers
  <2>7. /\ AppGood(b) /\ Top(b) # "SettingsAbout"
        /\ Len(events) = 1 => Kept(events[1], b)
        /\ sends => /\ Top(b) \in Senders /\ i.key = "ok"
                    /\ Top(b) = "Menu" => b.state.Menu = b.menu
                    /\ Top(b) = "Settings" => b.state.Settings = b.settings
                    /\ Top(b) = "Canbus" => b.id = SelectedId(b)
                    /\ Len(events) = 1 => Under(events[1], b)
    BY <1>1, <1>3, <2>4, <2>6, InputOnApp
  <2>8. /\ pc' = IF sends THEN "ok" ELSE "wait"
        /\ pc' \in Keys \cup {"wait", "about"} /\ pc' # "about" /\ (pc' \in Keys => sends)
    BY <2>3, <2>7 DEF Keys, Encoders
  <2>9. QueueTypes'
    BY <1>1, <1>5, <1>11, <2>4, <2>8 DEF QueueTypes, keys
  <2>10. AppGood(app)'
    BY <2>5, <2>7
  <2>11. SendsInv'
    BY <2>5, <2>7, <2>8 DEF SendsInv
  <2>12. QueuesInv'
    <3>1. Len(events) <= 2 /\ Len(events) # 2
      BY <1>3
    <3>2. QED
      BY <1>1, <1>3, <1>11, <2>8, <3>1 DEF QueuesInv
  <2>13. EventsInv'
    <3>1. ASSUME NEW n \in 1 .. Len(events) PROVE Sound(events[n], b)
      <4>1. n = 1 /\ Len(events) = 1
        <5>1. PICK m \in Nat : m = Len(events)
          BY <1>3
        <5>2. m <= 1 /\ n \in 1 .. m
          BY <1>3, <5>1
        <5>3. n = 1 /\ m = 1
          BY <5>2
        <5>4. QED
          BY <5>1, <5>3
      <4>2. Sound(events[1], app)
        BY <4>1 DEF EventsInv
      <4>3. QED
        BY <2>7, <4>1, <4>2 DEF Sound
    <3>2. Len(events) = 1 /\ pc' \in Keys => Under(events[1], b)
      BY <2>7, <2>8
    <3>3. Len(events) = 1 => events # <<>>
      OBVIOUS
    <3>4. Len(events) # 2
      BY <1>3
    <3>5. QED
      BY <1>1, <1>12, <2>5, <3>1, <3>2, <3>3, <3>4 DEF EventsInv
  <2>14. QED
    BY <1>1, <1>3, <1>11, <2>9, <2>10, <2>11, <2>12, <2>13
<1>15. QED
  BY <1>13, <1>14

(* The callback sends: its event has the scene on top, the number that      *)
(* scene handles and the choice under the cursor, and comes after no other  *)
(* than one whose turn it is.                                               *)
LEMMA SendKeeps ==
    ASSUME NavInv, Send
    PROVE  NavInv'
<1> USE DEF NavInv
<1>1. /\ pc = "ok" /\ pc' = "wait" /\ Top(app) \in Senders
      /\ UNCHANGED <<phase, shown, inputs, held, target, pressedIn, app>>
  BY DEF Send, SendsInv, keys, dispatcher
<1>2. events \in Seq(Event) /\ Len(events) \in Nat /\ Len(events) <= 1
      /\ (events # <<>> => First(waiting, "event"))
  BY <1>1 DEF QueueTypes, QueuesInv, Keys
<1>3. PICK e : e = [code |-> Number(app.view, pc), from |-> Top(app), choice |-> Choice(app, app.view)]
  OBVIOUS
<1>4. /\ app \in AppType /\ CursorIn(app) /\ app.view = ViewOf[Top(app)]
      /\ app.menu \in 0 .. 2 /\ app.settings \in 0 .. 1 /\ SelectedId(app) \in Ids \cup (0 .. 2)
  <2>1. app \in AppType /\ CursorIn(app) /\ app.view = ViewOf[Top(app)]
    BY DEF AppGood
  <2>2. SelectedId(app) \in Ids \cup {0}
    BY <2>1, SelectedIsId DEF KnownIds
  <2>3. QED
    BY <2>1, <2>2, AppFields
<1>5. /\ e.from = Top(app) /\ e.code = CodeOf[Top(app)] /\ e.code \in 1 .. 5
      /\ e.from = "Menu" => e.choice = app.menu
      /\ e.from = "Settings" => e.choice = app.settings
      /\ e.from = "Canbus" => e.choice = SelectedId(app)
      /\ e.choice \in Ids \cup (0 .. 2)
  <2>1. CASE Top(app) = "Dashboard"
    <3>1. app.view = "dashboard"
      BY <1>4, <2>1 DEF ViewOf
    <3>2. QED
      BY <1>1, <1>3, <2>1, <3>1 DEF Number, Choice, CodeOf, KeyNumber
  <2>2. CASE Top(app) = "Menu"
    <3>1. app.view = "menu"
      BY <1>4, <2>2 DEF ViewOf
    <3>2. QED
      BY <1>1, <1>3, <1>4, <2>2, <3>1 DEF Number, Choice, CodeOf, MenuSelected
  <2>3. CASE Top(app) = "Settings"
    <3>1. app.view = "submenu"
      BY <1>4, <2>3 DEF ViewOf
    <3>2. QED
      BY <1>1, <1>3, <1>4, <2>3, <3>1 DEF Number, Choice, CodeOf, SettingsSelected
  <2>4. CASE Top(app) = "Canbus"
    <3>1. app.view = "canbusSubmenu"
      BY <1>4, <2>4 DEF ViewOf
    <3>2. QED
      BY <1>1, <1>3, <1>4, <2>4, <3>1 DEF Number, Choice, CodeOf, CanIdSelected
  <2>5. QED
    BY <1>1, <2>1, <2>2, <2>3, <2>4 DEF Senders
<1>6. e \in Event
  BY <1>1, <1>3, <1>5, SceneNames DEF Event, Senders
<1>7. Sound(e, app) /\ Under(e, app)
  BY <1>1, <1>5 DEF Sound, Under, Kept, SendsInv, Keys
<1>8. PICK q : q = events'
  OBVIOUS
<1>9. /\ q = Append(events, e) /\ q \in Seq(Event) /\ Len(q) = Len(events) + 1
      /\ q # <<>> /\ q[Len(q)] = e /\ \A n \in 1 .. Len(events) : q[n] = events[n]
  BY <1>2, <1>3, <1>6, <1>8 DEF Send
<1>10. PICK first : first = Linked(waiting, "event", q)
  OBVIOUS
<1>11. /\ Once(first) /\ Contains(first, "event") /\ first # <<>>
       /\ Contains(first, "input") <=> Contains(waiting, "input")
       /\ events # <<>> => first[1] = "event"
  <2>1. Once(waiting) /\ "event" \in Items /\ "input" \in Items \ {"event"}
    BY DEF QueueTypes, Items
  <2>2. /\ Once(first)
        /\ Contains(first, "event")
        /\ Contains(first, "input") <=> Contains(waiting, "input")
        /\ waiting # <<>> => first[1] = waiting[1]
    <3>1. q # <<>>
      BY <1>9
    <3>2. /\ Once(first)
          /\ Contains(first, "event") <=> q # <<>> \/ Contains(waiting, "event")
          /\ Contains(first, "input") <=> Contains(waiting, "input")
          /\ waiting # <<>> => first # <<>> /\ first[1] = waiting[1]
      BY <1>10, <2>1, LinkedOnce
    <3>3. QED
      BY <3>1, <3>2
  <2>3. first # <<>>
    BY <2>2 DEF Contains
  <2>4. QED
    BY <1>2, <2>2, <2>3 DEF First
<1>12. /\ Once(waiting') /\ Contains(waiting', "event")
       /\ Contains(waiting', "input") => inputs # <<>>
       /\ events # <<>> => First(waiting', "event")
  <2>1. PICK list : list = waiting'
    OBVIOUS
  <2>2. PICK r : r = inputs
    OBVIOUS
  <2>3. list = Linked(first, "input", r)
    BY <1>8, <1>10, <2>1, <2>2 DEF Send
  <2>4. "input" \in Items /\ "event" \in Items \ {"input"}
    BY DEF Items
  <2>5. /\ Once(list)
        /\ Contains(list, "input") <=> r # <<>> \/ Contains(first, "input")
        /\ Contains(list, "event") <=> Contains(first, "event")
        /\ list # <<>> /\ list[1] = first[1]
    BY <1>11, <2>3, <2>4, LinkedOnce
  <2>6. Contains(waiting, "input") => inputs # <<>>
    BY DEF QueuesInv
  <2>7. QED
    BY <1>11, <2>1, <2>2, <2>5, <2>6 DEF First
<1>13. QueueTypes'
  BY <1>1, <1>8, <1>9, <1>12 DEF QueueTypes
<1>14. AppGood(app)' /\ SendsInv'
  BY <1>1 DEF SendsInv, Keys, Encoders
<1>15. PICK m \in Nat : m = Len(events)
  BY <1>2
<1>16. m <= 1 /\ Len(q) = m + 1 /\ (m # 0 => events # <<>>) /\ (m = 0 => events = <<>>)
  BY <1>2, <1>9, <1>15
<1>17. QueuesInv'
  <2>1. Len(q) <= 2 /\ (Len(q) = 2 => m = 1)
    BY <1>16
  <2>2. pc' \notin Keys
    BY <1>1 DEF Keys, Encoders
  <2>3. QED
    BY <1>1, <1>8, <1>9, <1>12, <1>16, <2>1, <2>2 DEF QueuesInv
<1>18. EventsInv'
  <2>1. ASSUME NEW n \in 1 .. Len(q) PROVE Sound(q[n], app)
    <3>1. n = Len(q) \/ (n \in 1 .. m /\ m = 1)
      BY <1>16
    <3>2. n \in 1 .. m => q[n] = events[n] /\ Sound(events[n], app)
      BY <1>9, <1>15 DEF EventsInv
    <3>3. QED
      BY <1>7, <1>9, <3>1, <3>2
  <2>2. Len(q) = 2 => q[2].from = Top(app) /\ Under(q[2], app)
    BY <1>5, <1>7, <1>9
  <2>3. Len(q) = 1 => Under(q[1], app)
    BY <1>7, <1>9
  <2>4. QED
    BY <1>1, <1>8, <2>1, <2>2, <2>3 DEF EventsInv
<1>19. QED
  BY <1>13, <1>14, <1>17, <1>18

(* A custom event leads at most one scene up or down the menu tree.         *)
LEMMA GoalIsNear ==
    ASSUME NEW a, AppGood(a), NEW code
    PROVE  \/ Goal(a, code) \in {"none", "below"} /\ (Goal(a, code) = "below" => Top(a) = "Menu")
           \/ Goal(a, code) \in DOMAIN Parent /\ Parent[Goal(a, code)] = Top(a)
<1>1. a.state.Menu \in 0 .. 2 /\ a.state.Settings \in 0 .. 1
  BY AppFields DEF AppGood
<1>2. MenuGoal(a) \in {"below", "Canbus", "Settings"}
  <2>1. a.state.Menu = 0 \/ a.state.Menu = 1 \/ a.state.Menu = 2
    BY <1>1
  <2>2. QED
    BY <2>1 DEF MenuGoal
<1>3. SettingsGoal(a) \in {"SettingsLcd", "SettingsAbout"}
  <2>1. a.state.Settings = 0 \/ a.state.Settings = 1
    BY <1>1
  <2>2. QED
    BY <2>1 DEF SettingsGoal
<1>4. CASE Top(a) = "Dashboard"
  <2>1. Goal(a, code) \in {"Menu", "none"}
    BY <1>4 DEF Goal
  <2>2. QED
    BY <1>4, <2>1, SceneNames
<1>5. CASE Top(a) = "Menu"
  <2>1. Goal(a, code) \in {"below", "Canbus", "Settings", "none"}
    BY <1>2, <1>5 DEF Goal
  <2>2. QED
    BY <1>5, <2>1, SceneNames
<1>6. CASE Top(a) = "Settings"
  <2>1. Goal(a, code) \in {"SettingsLcd", "SettingsAbout", "none"}
    BY <1>3, <1>6 DEF Goal
  <2>2. QED
    BY <1>6, <2>1, SceneNames
<1>7. CASE Top(a) = "Canbus"
  <2>1. Goal(a, code) \in {"CanbusDetail", "none"}
    BY <1>7 DEF Goal
  <2>2. QED
    BY <1>7, <2>1, SceneNames
<1>8. CASE Top(a) \notin {"Dashboard", "Menu", "Settings", "Canbus"}
  BY <1>8 DEF Goal
<1>9. QED
  BY <1>4, <1>5, <1>6, <1>7, <1>8

(* Where a custom event leads, and that it keeps what other events chose.   *)
LEMMA CustomMoves ==
    ASSUME NEW a, AppGood(a), NEW code, NEW items \in Seq(Ids), NEW b, b = OnCustom(a, code, items)
    PROVE  /\ AppGood(b) /\ b.id = a.id
           /\ Goal(a, code) = "none" => b = a
           /\ Goal(a, code) = "below" => Top(b) = "Dashboard" /\ Top(a) = "Menu"
           /\ Goal(a, code) \notin {"none", "below"} => Top(b) = Goal(a, code)
           /\ Goal(a, code) # "none" => Top(b) # Top(a)
           /\ Goal(a, code) = "CanbusDetail"
                => Top(a) = "Canbus" /\ b.items = a.items /\ b.state.Canbus = SelectedId(a)
           /\ \A e : Kept(e, a) /\ Under(e, a) => Kept(e, b)
<1>1. PICK goal : goal = Goal(a, code)
  OBVIOUS
<1>2. \/ goal \in {"none", "below"} /\ (goal = "below" => Top(a) = "Menu")
      \/ goal \in DOMAIN Parent /\ Parent[goal] = Top(a)
  BY <1>1, GoalIsNear
<1>3. goal \in DOMAIN Parent => goal # "none" /\ goal # "below" /\ Parent[goal] # goal
  BY SceneNames
<1>4. CASE goal = "none"
  <2>1. b = a
    BY <1>1, <1>4 DEF OnCustom
  <2>2. QED
    BY <1>1, <1>4, <2>1
<1>5. CASE goal = "below"
  <2>1. b = PreviousScene(a, items) /\ Top(a) = "Menu"
    BY <1>1, <1>2, <1>3, <1>5 DEF OnCustom
  <2>2. AppGood(b) /\ Top(b) = Parent[Top(a)] /\ Moves(a, b, items)
    BY <2>1, GoesBack
  <2>3. Top(b) = "Dashboard"
    BY <2>1, <2>2, SceneNames
  <2>4. \A e : Kept(e, a) /\ Under(e, a) => Kept(e, b)
    BY <2>2, MovesKeep
  <2>5. b.id = a.id
    BY <2>2 DEF Moves
  <2>6. QED
    BY <1>1, <1>5, <2>1, <2>2, <2>3, <2>4, <2>5
<1>6. CASE goal \notin {"none", "below"}
  <2>1. goal \in DOMAIN Parent /\ Parent[goal] = Top(a)
    BY <1>2, <1>6
  <2>2. PICK kept : kept = IF goal = "CanbusDetail" THEN [a EXCEPT !.state.Canbus = a.id] ELSE a
    OBVIOUS
  <2>3. b = NextScene(kept, goal, items)
    BY <1>1, <1>6, <2>2 DEF OnCustom
  <2>4. /\ AppGood(kept) /\ Top(kept) = Top(a) /\ kept.id = a.id /\ kept.menu = a.menu
        /\ kept.settings = a.settings /\ kept.items = a.items /\ kept.canbus = a.canbus
        /\ kept.state.Menu = a.state.Menu /\ kept.state.Settings = a.state.Settings
    <3>1. CASE goal = "CanbusDetail"
      <4>1. kept = [a EXCEPT !.state.Canbus = a.id] /\ a \in AppType /\ a.id \in KnownIds
        BY <2>2, <3>1, AppFields DEF AppGood
      <4>2. kept \in AppType
        BY <4>1 DEF AppType
      <4>3. /\ kept.scenes = a.scenes /\ kept.view = a.view /\ kept.id = a.id
            /\ kept.menu = a.menu /\ kept.settings = a.settings /\ kept.items = a.items
            /\ kept.canbus = a.canbus /\ kept.state.Menu = a.state.Menu
            /\ kept.state.Settings = a.state.Settings
        BY <4>1 DEF AppType
      <4>4. QED
        BY <4>2, <4>3 DEF AppGood, CursorIn, Top
    <3>2. CASE goal # "CanbusDetail"
      BY <2>2, <3>2
    <3>3. QED
      BY <3>1, <3>2
  <2>5. AppGood(b) /\ Top(b) = goal /\ Moves(kept, b, items)
    BY <2>1, <2>3, <2>4, GoesUp
  <2>6. b.id = a.id
    BY <2>4, <2>5 DEF Moves
  <2>7. ASSUME NEW e, Kept(e, a), Under(e, a) PROVE Kept(e, b)
    BY <2>4, <2>5, <2>6, <2>7 DEF Moves, Kept, Under
  <2>8. Top(b) # Top(a)
    BY <1>3, <2>1, <2>5
  <2>9. ASSUME goal = "CanbusDetail"
        PROVE  Top(a) = "Canbus" /\ b.items = a.items /\ b.state.Canbus = SelectedId(a)
    <3>1. Top(a) = "Canbus" /\ Top(b) # "Canbus"
      BY <2>1, <2>5, <2>9, SceneNames
    <3>2. SelectedId(kept) = SelectedId(a)
      BY <2>4 DEF SelectedId
    <3>3. QED
      BY <2>4, <2>5, <3>1, <3>2 DEF Moves
  <2>10. QED
    BY <1>1, <1>6, <2>5, <2>6, <2>7, <2>8, <2>9
<1>7. QED
  BY <1>4, <1>5, <1>6

(* What is sent opens what was chosen, or nothing.                          *)
LEMMA CustomOpens ==
    ASSUME NEW a, AppGood(a), NEW e \in Event, Sound(e, a),
           NEW items \in Seq(Ids), NEW b, b = OnCustom(a, e.code, items)
    PROVE  IF e.from = Top(a) THEN Opens(e, b) ELSE b = a
<1>1. /\ b.id = a.id
      /\ Goal(a, e.code) = "none" => b = a
      /\ Goal(a, e.code) = "below" => Top(b) = "Dashboard"
      /\ Goal(a, e.code) \notin {"none", "below"} => Top(b) = Goal(a, e.code)
  <2>1. PICK code : code = e.code
    OBVIOUS
  <2>2. QED
    BY <2>1, CustomMoves
<1>2. a.state.Menu \in 0 .. 2 /\ a.state.Settings \in 0 .. 1
  BY AppFields DEF AppGood
<1>3. /\ e.from = "Dashboard" => e.code = 4
      /\ e.from = "Menu" => e.code = 2 /\ a.state.Menu = e.choice
      /\ e.from = "Settings" => e.code = 3 /\ a.state.Settings = e.choice
      /\ e.from = "Canbus" => e.code = 1 /\ a.id = e.choice
      /\ e.from \in Senders
  BY DEF Sound, Kept, CodeOf, KeyNumber, MenuSelected, SettingsSelected, CanIdSelected
<1>4. CASE e.from # Top(a)
  <2>1. Goal(a, e.code) = "none"
    BY <1>3, <1>4 DEF Goal, Senders, KeyNumber, MenuSelected, SettingsSelected, CanIdSelected
  <2>2. QED
    BY <1>1, <1>4, <2>1
<1>5. CASE e.from = Top(a) /\ e.from = "Dashboard"
  <2>1. Goal(a, e.code) = "Menu"
    BY <1>3, <1>5 DEF Goal, KeyNumber
  <2>2. QED
    BY <1>1, <1>5, <2>1 DEF Opens
<1>6. CASE e.from = Top(a) /\ e.from = "Menu"
  <2>1. Goal(a, e.code) = MenuGoal(a)
    BY <1>3, <1>6 DEF Goal, MenuSelected
  <2>2. CASE e.choice = 0
    <3>1. MenuGoal(a) = "below"
      BY <1>3, <1>6, <2>2 DEF MenuGoal
    <3>2. QED
      BY <1>1, <1>6, <2>1, <2>2, <3>1 DEF Opens
  <2>3. CASE e.choice = 1
    <3>1. MenuGoal(a) = "Canbus"
      BY <1>3, <1>6, <2>3 DEF MenuGoal
    <3>2. QED
      BY <1>1, <1>6, <2>1, <2>3, <3>1 DEF Opens
  <2>4. CASE e.choice = 2
    <3>1. MenuGoal(a) = "Settings"
      BY <1>3, <1>6, <2>4 DEF MenuGoal
    <3>2. QED
      BY <1>1, <1>6, <2>1, <2>4, <3>1 DEF Opens
  <2>5. QED
    BY <1>2, <1>3, <1>6, <2>2, <2>3, <2>4
<1>7. CASE e.from = Top(a) /\ e.from = "Settings"
  <2>1. Goal(a, e.code) = SettingsGoal(a)
    BY <1>3, <1>7 DEF Goal, SettingsSelected
  <2>2. CASE e.choice = 0
    <3>1. SettingsGoal(a) = "SettingsLcd"
      BY <1>3, <1>7, <2>2 DEF SettingsGoal
    <3>2. QED
      BY <1>1, <1>7, <2>1, <2>2, <3>1 DEF Opens
  <2>3. CASE e.choice = 1
    <3>1. SettingsGoal(a) = "SettingsAbout"
      BY <1>3, <1>7, <2>3 DEF SettingsGoal
    <3>2. QED
      BY <1>1, <1>7, <2>1, <2>3, <3>1 DEF Opens
  <2>4. QED
    BY <1>2, <1>3, <1>7, <2>2, <2>3
<1>8. CASE e.from = Top(a) /\ e.from = "Canbus"
  <2>1. Goal(a, e.code) = "CanbusDetail"
    BY <1>3, <1>8 DEF Goal, CanIdSelected
  <2>2. QED
    BY <1>1, <1>3, <1>8, <2>1 DEF Opens
<1>9. QED
  BY <1>3, <1>4, <1>5, <1>6, <1>7, <1>8 DEF Senders

(* The loop gives an event to the scene on top.                             *)
LEMMA TakesEvent ==
    ASSUME NavInv, TakeEvent
    PROVE  /\ pc = "wait" /\ First(waiting, "event") /\ events # <<>>
           /\ events \in Seq(Event) /\ Len(events) \in {1, 2} /\ events' = Tail(events)
           /\ Head(events) = events[1] /\ events[1] \in Event /\ Sound(events[1], app)
           /\ \E items \in Seq(Ids) : app' = OnCustom(app, events[1].code, items)
<1>1. pc = "wait" /\ waiting # <<>> /\ Head(waiting) = "event" /\ Once(waiting)
  BY DEF TakeEvent, NavInv, QueueTypes
<1>2. waiting[1] = "event" /\ Contains(waiting, "event")
  BY <1>1, TailOnce
<1>3. events # <<>> /\ events \in Seq(Event) /\ Len(events) <= 2
  BY <1>2 DEF NavInv, QueuesInv, QueueTypes
<1>4. Len(events) \in {1, 2} /\ Head(events) = events[1] /\ events[1] \in Event
  <2>1. Len(events) \in Nat /\ Len(events) # 0
    BY <1>3
  <2>2. PICK n \in Nat : n = Len(events)
    BY <2>1
  <2>3. n \in {1, 2}
    BY <1>3, <2>1, <2>2
  <2>4. QED
    BY <1>3, <2>2, <2>3
<1>5. Sound(events[1], app)
  BY <1>4 DEF NavInv, EventsInv
<1>6. PICK items \in Snapshots : app' = OnCustom(app, Head(events).code, items)
  BY DEF TakeEvent
<1>7. items \in Seq(Ids)
  BY SnapshotIs
<1>8. QED
  BY <1>1, <1>2, <1>3, <1>4, <1>5, <1>6, <1>7 DEF TakeEvent, First

(* An event is taken: one that is left is still what its user chose, and    *)
(* under the cursor of the scene that sent it.                              *)
LEMMA TakeEventKeeps ==
    ASSUME NavInv, TakeEvent
    PROVE  NavInv'
<1>1. /\ pc = "wait" /\ First(waiting, "event") /\ events # <<>>
      /\ events \in Seq(Event) /\ Len(events) \in {1, 2} /\ events' = Tail(events)
      /\ Head(events) = events[1] /\ events[1] \in Event /\ Sound(events[1], app)
      /\ \E items \in Seq(Ids) : app' = OnCustom(app, events[1].code, items)
  BY TakesEvent
<1> USE DEF NavInv
<1>2. UNCHANGED <<phase, shown, inputs, held, target, pressedIn>>
  BY DEF TakeEvent, keys, dispatcher
<1>3. PICK b : b = app'
  OBVIOUS
<1>4. PICK code : code = events[1].code
  OBVIOUS
<1>5. PICK items \in Seq(Ids) : b = OnCustom(app, code, items)
  BY <1>1, <1>3, <1>4
<1>6. /\ AppGood(b)
      /\ b = app \/ Top(b) # Top(app)
      /\ \A e : Kept(e, app) /\ Under(e, app) => Kept(e, b)
  BY <1>5, CustomMoves
<1>7. PICK q : q = events'
  OBVIOUS
<1>8. q \in Seq(Event) /\ Len(q) = Len(events) - 1 /\ (Len(events) = 2 => q[1] = events[2])
  BY <1>1, <1>7
<1>9. (Len(q) = 0 \/ Len(q) = 1) /\ (Len(q) = 1 => Len(events) = 2) /\ (q # <<>> => Len(q) = 1)
      /\ Len(q) <= 2 /\ Len(q) # 2
  <2>1. PICK m \in Nat : m = Len(q)
    BY <1>8
  <2>2. m + 1 = Len(events) /\ (Len(events) = 1 \/ Len(events) = 2)
    BY <1>1, <1>8, <2>1
  <2>3. PICK n : n = Len(events)
    OBVIOUS
  <2>4. (m = 0 \/ m = 1) /\ (m = 1 => n = 2) /\ m <= 2 /\ m # 2
    BY <2>2, <2>3
  <2>5. q # <<>> => m # 0
    BY <1>8, <2>1
  <2>6. QED
    BY <2>1, <2>3, <2>4, <2>5
<1>10. Len(q) = 1 => Sound(q[1], b) /\ Under(q[1], b)
  <2>1. SUFFICES ASSUME Len(q) = 1 PROVE Sound(q[1], b) /\ Under(q[1], b)
    OBVIOUS
  <2>2. q[1] = events[2] /\ Sound(events[2], app) /\ events[2].from = Top(app) /\ Under(events[2], app)
    <3>1. Len(events) = 2
      BY <1>9, <2>1
    <3>2. 2 \in 1 .. Len(events)
      BY <3>1
    <3>3. QED
      BY <1>8, <3>1, <3>2 DEF EventsInv
  <2>3. Kept(q[1], b)
    BY <1>6, <2>2 DEF Sound
  <2>4. Under(q[1], b)
    BY <1>6, <2>2 DEF Under
  <2>5. QED
    BY <2>2, <2>3, <2>4 DEF Sound
<1>11. PICK rest : rest = Tail(waiting)
  OBVIOUS
<1>12. /\ Once(rest) /\ ~ Contains(rest, "event")
       /\ Contains(rest, "input") <=> Contains(waiting, "input")
  BY <1>1, <1>11, TailOnce DEF First, QueueTypes, Items
<1>13. /\ Once(waiting')
       /\ Contains(waiting', "input") => inputs # <<>>
       /\ Contains(waiting', "event") => q # <<>>
       /\ pc' # "about" /\ q # <<>> => Contains(waiting', "event")
       /\ pc' = "about" => ~ Contains(waiting', "event")
       /\ pc' \in {"wait", "about"} /\ (pc' = "about" <=> Top(b) = "SettingsAbout")
  <2>1. Contains(rest, "input") => inputs # <<>>
    BY <1>12 DEF QueuesInv
  <2>2. CASE Top(b) = "SettingsAbout"
    <3>1. pc' = "about" /\ waiting' = rest
      BY <1>3, <1>11, <2>2 DEF TakeEvent
    <3>2. QED
      BY <1>12, <2>1, <2>2, <3>1
  <2>3. CASE Top(b) # "SettingsAbout"
    <3>1. PICK r : r = Linked(rest, "event", q)
      OBVIOUS
    <3>2. pc' = "wait" /\ waiting' = r
      BY <1>1, <1>3, <1>7, <1>11, <2>3, <3>1 DEF TakeEvent
    <3>3. "event" \in Items /\ "input" \in Items \ {"event"}
      BY DEF Items
    <3>4. /\ Once(r)
          /\ Contains(r, "event") <=> q # <<>> \/ Contains(rest, "event")
          /\ Contains(r, "input") <=> Contains(rest, "input")
      BY <1>12, <3>1, <3>3, LinkedOnce
    <3>5. QED
      BY <1>12, <2>1, <2>3, <3>2, <3>4
  <2>4. QED
    BY <2>2, <2>3
<1>14. pc' \notin Keys
  BY <1>13 DEF Keys, Encoders
<1>15. QueueTypes'
  BY <1>2, <1>7, <1>8, <1>13 DEF QueueTypes
<1>16. AppGood(app)' /\ SendsInv'
  BY <1>3, <1>6, <1>13, <1>14 DEF SendsInv
<1>17. QueuesInv'
  <2>1. Len(q) <= 2 /\ Len(q) # 2
    BY <1>9
  <2>2. QED
    BY <1>2, <1>7, <1>13, <1>14, <2>1 DEF QueuesInv
<1>18. EventsInv'
  <2>1. ASSUME NEW n \in 1 .. Len(q) PROVE Sound(q[n], b)
    <3>1. n = 1 /\ Len(q) = 1
      <4>1. PICK m \in {0, 1} : m = Len(q)
        BY <1>9
      <4>2. n = 1 /\ m = 1
        BY <4>1
      <4>3. QED
        BY <4>1, <4>2
    <3>2. QED
      BY <1>10, <3>1
  <2>2. Len(q) # 2
    BY <1>9
  <2>3. QED
    BY <1>3, <1>7, <1>10, <2>1, <2>2 DEF EventsInv
<1>19. QED
  BY <1>15, <1>16, <1>17, <1>18

(* About closes itself, on Settings with the cursor where it was.           *)
LEMMA AboutReturnKeeps ==
    ASSUME NavInv, AboutReturn
    PROVE  NavInv' /\ Top(app) = "SettingsAbout" /\ Top(app') = "Settings"
<1> USE DEF NavInv
<1>1. /\ pc = "about" /\ pc' = "wait" /\ waiting' = Linked(waiting, "event", events)
      /\ UNCHANGED <<phase, shown, inputs, events, held, target, pressedIn>>
  BY DEF AboutReturn, keys, dispatcher
<1>2. Top(app) = "SettingsAbout" /\ pc \notin Keys /\ pc' \notin Keys
  BY <1>1 DEF SendsInv, Keys, Encoders
<1>3. PICK b : b = app'
  OBVIOUS
<1>4. PICK items \in Snapshots : b = PreviousScene(app, items)
  BY <1>3 DEF AboutReturn
<1>5. items \in Seq(Ids)
  BY SnapshotIs
<1>6. AppGood(b) /\ Top(b) = Parent[Top(app)] /\ Moves(app, b, items)
  BY <1>2, <1>4, <1>5, GoesBack
<1>7. Top(b) = "Settings"
  BY <1>2, <1>6, SceneNames
<1>8. events \in Seq(Event) /\ Len(events) \in Nat /\ Len(events) <= 1
  <2>1. Len(events) <= 2 /\ Len(events) # 2
    BY <1>1 DEF QueuesInv
  <2>2. events \in Seq(Event)
    BY DEF QueueTypes
  <2>3. PICK n \in Nat : n = Len(events)
    BY <2>2
  <2>4. n <= 1
    BY <2>1, <2>3
  <2>5. QED
    BY <2>2, <2>3, <2>4
<1>9. \A n \in 1 .. Len(events) : Sound(events[n], app) /\ Under(events[n], app)
  BY <1>2 DEF EventsInv, Sound, Under, Senders
<1>10. \A n \in 1 .. Len(events) : Sound(events[n], b) /\ Under(events[n], b)
  <2>1. SUFFICES ASSUME NEW n \in 1 .. Len(events), NEW e, e = events[n]
                 PROVE  Sound(e, b) /\ Under(e, b)
    OBVIOUS
  <2>2. Sound(e, app) /\ Under(e, app)
    BY <1>9, <2>1
  <2>3. Kept(e, b)
    BY <1>6, <2>2, MovesKeep DEF Sound
  <2>4. e.from = "Settings" => b.settings = e.choice
    BY <1>6, <1>7, <2>3 DEF Kept, Moves
  <2>5. QED
    BY <1>7, <2>2, <2>3, <2>4 DEF Sound, Under
<1>11. PICK r : r = waiting'
  OBVIOUS
<1>12. PICK q : q = events
  OBVIOUS
<1>13. /\ Once(r)
       /\ Contains(r, "event") <=> q # <<>>
       /\ Contains(r, "input") <=> Contains(waiting, "input")
  <2>1. Once(waiting) /\ ~ Contains(waiting, "event")
    BY <1>1 DEF QueueTypes, QueuesInv
  <2>2. "event" \in Items /\ "input" \in Items \ {"event"}
    BY DEF Items
  <2>3. r = Linked(waiting, "event", q)
    BY <1>1, <1>11, <1>12
  <2>4. /\ Once(r)
        /\ Contains(r, "event") <=> q # <<>> \/ Contains(waiting, "event")
        /\ Contains(r, "input") <=> Contains(waiting, "input")
    BY <2>1, <2>2, <2>3, LinkedOnce
  <2>5. QED
    BY <2>1, <2>4
<1>14. QueueTypes'
  BY <1>1, <1>11, <1>13 DEF QueueTypes
<1>15. AppGood(app)' /\ SendsInv'
  BY <1>1, <1>2, <1>3, <1>6, <1>7 DEF SendsInv
<1>16. QueuesInv'
  <2>1. Len(events) <= 2 /\ Len(events) # 2
    BY <1>8
  <2>2. Contains(waiting, "input") => inputs # <<>>
    BY DEF QueuesInv
  <2>3. QED
    BY <1>1, <1>2, <1>11, <1>12, <1>13, <2>1, <2>2 DEF QueuesInv
<1>17. EventsInv'
  <2>1. Len(events) # 2 /\ (Len(events) = 1 => 1 \in 1 .. Len(events))
    BY <1>8
  <2>2. QED
    BY <1>1, <1>3, <1>10, <2>1 DEF EventsInv
<1>18. QED
  BY <1>2, <1>3, <1>7, <1>14, <1>15, <1>16, <1>17

(* A tick comes when nothing waits; the list of CAN messages keeps its id.  *)
LEMMA TickKeeps ==
    ASSUME NavInv, Tick
    PROVE  /\ NavInv' /\ Top(app') = Top(app) /\ app'.id = app.id /\ app'.state = app.state
           /\ app.items # <<>> => SelectedId(app') = SelectedId(app)
           /\ Top(app) # "Canbus" => app' = app
<1> USE DEF NavInv
<1>1. /\ pc = "wait" /\ waiting = <<>>
      /\ UNCHANGED <<phase, shown, inputs, events, waiting, pc, held, target, pressedIn>>
  BY DEF Tick, keys, dispatcher
<1>2. events = <<>> /\ Len(events) = 0 /\ pc \notin Keys
  <2>1. ~ Contains(waiting, "event")
    BY <1>1 DEF Contains
  <2>2. events = <<>>
    BY <1>1, <2>1 DEF QueuesInv
  <2>3. QED
    BY <1>1, <2>2 DEF Keys, Encoders
<1>3. AppGood(app) /\ app \in AppType /\ CursorIn(app)
  BY DEF AppGood
<1>4. PICK b : b = app'
  OBVIOUS
<1>5. /\ AppGood(b) /\ Top(b) = Top(app) /\ b.id = app.id /\ b.state = app.state
      /\ app.items # <<>> => SelectedId(b) = SelectedId(app)
      /\ Top(app) # "Canbus" => b = app
  <2>1. CASE Top(app) = "Canbus"
    <3>1. PICK items \in Snapshots : b = Rebuilt(app, items, SelectedId(app))
      BY <1>4, <2>1 DEF Tick
    <3>2. items \in Seq(Ids) /\ \A id : Contains(app.items, id) => Contains(items, id)
      BY SnapshotIs
    <3>3. PICK chosen : chosen = SelectedId(app)
      OBVIOUS
    <3>4. /\ b \in AppType /\ CursorIn(b)
          /\ b.scenes = app.scenes /\ b.view = app.view /\ b.state = app.state /\ b.id = app.id
          /\ Contains(items, chosen) => SelectedId(b) = chosen
      BY <1>3, <3>1, <3>2, <3>3, RebuiltKeeps
    <3>5. app.items # <<>> => Contains(app.items, chosen)
      BY <1>3, <3>3, SelectedListed
    <3>6. Top(b) = Top(app)
      BY <3>4 DEF Top
    <3>7. AppGood(b)
      BY <1>3, <3>4, <3>6 DEF AppGood
    <3>8. QED
      BY <2>1, <3>2, <3>3, <3>4, <3>5, <3>6, <3>7
  <2>2. CASE Top(app) # "Canbus"
    <3>1. b = app
      BY <1>4, <2>2 DEF Tick
    <3>2. QED
      BY <1>3, <3>1
  <2>3. QED
    BY <2>1, <2>2
<1>6. QueueTypes'
  BY <1>1 DEF QueueTypes
<1>7. SendsInv'
  BY <1>1, <1>2, <1>4, <1>5 DEF SendsInv
<1>8. QueuesInv'
  BY <1>1, <1>2 DEF QueuesInv
<1>9. EventsInv'
  BY <1>1, <1>2 DEF EventsInv
<1>10. QED
  BY <1>4, <1>5, <1>6, <1>7, <1>8, <1>9

(* Every step keeps the invariant.                                          *)
LEMMA StepKeeps == NavInv /\ [Next]_vars => NavInv'
<1> SUFFICES ASSUME NavInv, [Next]_vars PROVE NavInv'
  OBVIOUS
<1>1. ASSUME NEW k \in Keys, NEW type \in Types, Put(k, type) PROVE NavInv'
  BY <1>1, PutKeeps
<1>2. ASSUME NEW k \in Keys, NEW type \in Types, Withhold(k, type) PROVE NavInv'
  BY <1>2, WithholdKeeps
<1>3. CASE TakeInput
  BY <1>3, TakeInputKeeps
<1>4. CASE Send
  BY <1>4, SendKeeps
<1>5. CASE TakeEvent
  BY <1>5, TakeEventKeeps
<1>6. CASE AboutReturn
  BY <1>6, AboutReturnKeeps
<1>7. CASE Tick
  BY <1>7, TickKeeps
<1>8. CASE UNCHANGED vars
  BY <1>8 DEF vars, keys, dispatcher, NavInv, QueueTypes, QueuesInv, SendsInv, EventsInv
<1>9. QED
  BY <1>1, <1>2, <1>3, <1>4, <1>5, <1>6, <1>7, <1>8 DEF Next

(* The invariant holds in every state the thread can be in.                 *)
THEOREM NavInvariant == Spec => []NavInv
<1>1. Init => NavInv
  BY InitKeeps
<1>2. NavInv /\ [Next]_vars => NavInv'
  BY StepKeeps
<1>3. QED
  BY <1>1, <1>2, PTL DEF Spec

(* Whatever keys are pressed while the thread is busy, its scenes are a     *)
(* path of the menu tree that starts at the dashboard, and the view that is *)
(* shown is the one of the scene on top.                                    *)
THEOREM ScenesArePath == Spec => []PathLegal
<1>1. NavInv => PathLegal
  BY InvIsTypeOK DEF NavInv, AppGood, IsPath, PathLegal
<1>2. QED
  BY <1>1, NavInvariant, PTL

(* A view's callback finds room in the queue that only its own thread       *)
(* empties.                                                                 *)
THEOREM RoomForOwnEvent == Spec => []NeverBlocksItself
<1>1. NavInv => NeverBlocksItself
  <2>1. SUFFICES ASSUME NavInv, pc \in Keys PROVE Len(events) < QueueLength
    BY DEF NeverBlocksItself
  <2>2. Len(events) <= 1 /\ events \in Seq(Event)
    BY <2>1 DEF NavInv, QueuesInv, QueueTypes
  <2>3. PICK n \in Nat : n = Len(events)
    BY <2>2
  <2>4. n < QueueLength
    BY <2>2, <2>3, NavigationAssumption
  <2>5. QED
    BY <2>3, <2>4
<1>2. QED
  BY <1>1, NavInvariant, PTL

(* What was under the cursor when Ok was pressed is what opens, and an      *)
(* event of a scene that is no longer on top does nothing.                  *)
THEOREM ChosenOpens == Spec => OpensChosen
<1> DEFINE Opened == events # <<>> /\ events' = Tail(events)
                     => IF Head(events).from = Top(app) THEN Opens(Head(events), app')
                        ELSE app' = app
<1>1. NavInv /\ [Next]_vars => [Opened]_vars
  <2>1. SUFFICES ASSUME NavInv, Next, events # <<>>, events' = Tail(events)
                 PROVE  IF Head(events).from = Top(app) THEN Opens(Head(events), app')
                        ELSE app' = app
    OBVIOUS
  <2>2. events \in Seq(Event) /\ Len(events) \in Nat /\ Len(Tail(events)) = Len(events) - 1
    BY <2>1 DEF NavInv, QueueTypes
  <2>3. events' # events
    <3>1. PICK n \in Nat : n = Len(events)
      BY <2>2
    <3>2. Len(Tail(events)) = n - 1 /\ n - 1 # n
      BY <2>2, <3>1
    <3>3. QED
      BY <2>1, <3>1, <3>2
  <2>4. CASE TakeEvent
    <3>1. /\ Head(events) = events[1] /\ events[1] \in Event /\ Sound(events[1], app)
          /\ \E items \in Seq(Ids) : app' = OnCustom(app, events[1].code, items)
      BY <2>1, <2>4, TakesEvent
    <3>2. PICK e \in Event : e = events[1]
      BY <3>1
    <3>3. PICK b : b = app'
      OBVIOUS
    <3>4. PICK items \in Seq(Ids) : b = OnCustom(app, e.code, items)
      BY <3>1, <3>2, <3>3
    <3>5. AppGood(app) /\ Sound(e, app)
      BY <2>1, <3>1, <3>2 DEF NavInv
    <3>6. IF e.from = Top(app) THEN Opens(e, b) ELSE b = app
      BY <3>4, <3>5, CustomOpens
    <3>7. QED
      BY <3>1, <3>2, <3>3, <3>6
  <2>5. CASE Send
    <3>1. PICK e \in Event : events' = Append(events, e)
      <4>1. events' \in Seq(Event)
        BY <2>1, <2>5, SendKeeps DEF NavInv, QueueTypes
      <4>2. PICK e : events' = Append(events, e)
        BY <2>5 DEF Send
      <4>3. e \in Event
        BY <2>2, <4>1, <4>2
      <4>4. QED
        BY <4>2, <4>3
    <3>2. Len(events') = Len(events) + 1
      BY <2>2, <3>1
    <3>3. QED
      BY <2>1, <2>2, <3>2
  <2>6. CASE TakeInput \/ AboutReturn \/ Tick
    BY <2>3, <2>6 DEF TakeInput, AboutReturn, Tick
  <2>7. CASE \E k \in Keys, type \in Types : Put(k, type) \/ Withhold(k, type)
    BY <2>3, <2>7 DEF Put, Withhold
  <2>8. QED
    BY <2>1, <2>4, <2>5, <2>6, <2>7 DEF Next
<1>2. QED
  BY <1>1, NavInvariant, PTL DEF Spec, OpensChosen
-----------------------------------------------------------------------------
(* The selection in the list of CAN messages.                               *)

(* The ok key is held once the first n of the inputs s are handled, when    *)
(* the keys h are held before.                                              *)
OkShort == [key |-> "ok", type |-> "Short"]
OkPress == [key |-> "ok", type |-> "Press"]
OkRelease == [key |-> "ok", type |-> "Release"]
HoldsAfter(s, h, n) ==
    \/ "ok" \in h /\ \A j \in 1 .. n : s[j] # OkRelease
    \/ \E m \in 1 .. n : s[m] = OkPress /\ \A j \in m + 1 .. n : s[j] # OkRelease

(* The service publishes the Release of a click right after its Short, and  *)
(* the GUI does not withhold it: what follows a Short that a view answered  *)
(* moves no cursor.                                                         *)
ReleaseComes == IF inputs # <<>> THEN inputs[1] = OkRelease
                ELSE phase["ok"] = "clicked" /\ "ok" \in shown
ClickInv ==
    /\ HoldsAfter(inputs, held, Len(inputs)) <=> "ok" \in shown
    /\ \A n \in 1 .. Len(inputs) :
          inputs[n] = OkShort /\ HoldsAfter(inputs, held, n - 1)
            => IF n < Len(inputs) THEN inputs[n + 1] = OkRelease ELSE phase["ok"] = "clicked"

(* From the Short on the list to the details, the cursor is on the id that  *)
(* was chosen; the details keep that id, and the list does not lose it.     *)
ChoiceInv ==
    /\ pc = "ok" /\ Top(app) = "Canbus" => ReleaseComes /\ Contains(app.items, app.id)
    /\ \A n \in 1 .. Len(events) :
          events[n].from = "Canbus" /\ Top(app) = "Canbus"
            => /\ SelectedId(app) = events[n].choice /\ Contains(app.items, events[n].choice)
               /\ ReleaseComes \/ (n = 1 /\ First(waiting, "event"))
    /\ Top(app) = "CanbusDetail" => app.state.Canbus = app.id /\ Contains(app.items, app.id)

(* One input more.                                                          *)
LEMMA HoldsStep ==
    ASSUME NEW s, NEW h, NEW n \in Nat
    PROVE  /\ HoldsAfter(s, h, 0) <=> "ok" \in h
           /\ HoldsAfter(s, h, n + 1)
                <=> s[n + 1] = OkPress \/ (s[n + 1] # OkRelease /\ HoldsAfter(s, h, n))
<1>1. HoldsAfter(s, h, 0) <=> "ok" \in h
  BY DEF HoldsAfter
<1>2. OkPress # OkRelease
  BY DEF OkPress, OkRelease
<1>3. ASSUME HoldsAfter(s, h, n + 1), s[n + 1] # OkPress
      PROVE  s[n + 1] # OkRelease /\ HoldsAfter(s, h, n)
  <2>1. CASE "ok" \in h /\ \A j \in 1 .. n + 1 : s[j] # OkRelease
    BY <2>1 DEF HoldsAfter
  <2>2. ASSUME NEW m \in 1 .. n + 1, s[m] = OkPress, \A j \in m + 1 .. n + 1 : s[j] # OkRelease
        PROVE  s[n + 1] # OkRelease /\ HoldsAfter(s, h, n)
    <3>1. m \in 1 .. n /\ n + 1 \in m + 1 .. n + 1
      BY <1>3, <2>2
    <3>2. \A j \in m + 1 .. n : j \in m + 1 .. n + 1
      OBVIOUS
    <3>3. QED
      BY <2>2, <3>1, <3>2 DEF HoldsAfter
  <2>3. QED
    BY <1>3, <2>1, <2>2 DEF HoldsAfter
<1>4. ASSUME s[n + 1] = OkPress PROVE HoldsAfter(s, h, n + 1)
  <2>1. n + 1 \in 1 .. n + 1 /\ \A j \in (n + 1) + 1 .. n + 1 : s[j] # OkRelease
    OBVIOUS
  <2>2. QED
    BY <1>4, <2>1 DEF HoldsAfter
<1>5. ASSUME s[n + 1] # OkRelease, HoldsAfter(s, h, n) PROVE HoldsAfter(s, h, n + 1)
  <2>1. \A j \in 1 .. n + 1 : j \in 1 .. n \/ j = n + 1
    OBVIOUS
  <2>2. CASE "ok" \in h /\ \A j \in 1 .. n : s[j] # OkRelease
    BY <1>5, <2>1, <2>2 DEF HoldsAfter
  <2>3. ASSUME NEW m \in 1 .. n, s[m] = OkPress, \A j \in m + 1 .. n : s[j] # OkRelease
        PROVE  HoldsAfter(s, h, n + 1)
    <3>1. m \in 1 .. n + 1 /\ \A j \in m + 1 .. n + 1 : j \in m + 1 .. n \/ j = n + 1
      OBVIOUS
    <3>2. QED
      BY <1>5, <2>3, <3>1 DEF HoldsAfter
  <2>4. QED
    BY <1>5, <2>2, <2>3 DEF HoldsAfter
<1>6. QED
  BY <1>1, <1>2, <1>3, <1>4, <1>5

(* An input that comes behind changes nothing for those before it.          *)
LEMMA HoldsLonger ==
    ASSUME NEW s, NEW r, NEW h, NEW n \in Nat, \A j \in 1 .. n : r[j] = s[j]
    PROVE  HoldsAfter(r, h, n) <=> HoldsAfter(s, h, n)
<1>1. \A m \in 1 .. n : \A j \in m + 1 .. n : j \in 1 .. n
  OBVIOUS
<1>2. QED
  BY <1>1 DEF HoldsAfter

(* When the first input is handled, the others stay where they are.         *)
LEMMA HoldsShorter ==
    ASSUME NEW s, NEW r, NEW h, NEW after, NEW n \in Nat, \A j \in 1 .. n : r[j] = s[j + 1],
           "ok" \in after <=> s[1] = OkPress \/ (s[1] # OkRelease /\ "ok" \in h)
    PROVE  HoldsAfter(r, after, n) <=> HoldsAfter(s, h, n + 1)
<1>1. ASSUME NEW m \in 1 .. n
      PROVE  m + 1 \in 1 .. n + 1 /\ \A j \in (m + 1) + 1 .. n + 1 : j - 1 \in m + 1 .. n /\ r[j - 1] = s[j]
  OBVIOUS
<1>2. \A m \in 1 .. n : \A j \in m + 1 .. n : j + 1 \in (m + 1) + 1 .. n + 1 /\ s[j + 1] = r[j]
  OBVIOUS
<1>3. \A j \in 1 .. n : j + 1 \in 2 .. n + 1 /\ j + 1 \in 1 .. n + 1 /\ s[j + 1] = r[j]
  OBVIOUS
<1>4. /\ 1 \in 1 .. n + 1
      /\ \A j \in 2 .. n + 1 : j - 1 \in 1 .. n /\ r[j - 1] = s[j]
      /\ \A j \in 1 .. n + 1 : j = 1 \/ j \in 2 .. n + 1
  OBVIOUS
<1>5. ASSUME HoldsAfter(r, after, n) PROVE HoldsAfter(s, h, n + 1)
  <2>1. CASE "ok" \in after /\ \A j \in 1 .. n : r[j] # OkRelease
    <3>1. \A j \in 2 .. n + 1 : s[j] # OkRelease
      BY <1>4, <2>1
    <3>2. CASE s[1] = OkPress
      <4>1. \A j \in 1 + 1 .. n + 1 : s[j] # OkRelease
        BY <3>1
      <4>2. QED
        BY <1>4, <3>2, <4>1 DEF HoldsAfter
    <3>3. CASE s[1] # OkRelease /\ "ok" \in h
      BY <1>4, <3>1, <3>3 DEF HoldsAfter
    <3>4. QED
      BY <2>1, <3>2, <3>3
  <2>2. ASSUME NEW m \in 1 .. n, r[m] = OkPress, \A j \in m + 1 .. n : r[j] # OkRelease
        PROVE  HoldsAfter(s, h, n + 1)
    <3>1. m + 1 \in 1 .. n + 1 /\ s[m + 1] = OkPress
      BY <1>3, <2>2
    <3>2. \A j \in (m + 1) + 1 .. n + 1 : s[j] # OkRelease
      BY <1>1, <2>2
    <3>3. QED
      BY <3>1, <3>2 DEF HoldsAfter
  <2>3. QED
    BY <1>5, <2>1, <2>2 DEF HoldsAfter
<1>6. ASSUME HoldsAfter(s, h, n + 1) PROVE HoldsAfter(r, after, n)
  <2>1. CASE "ok" \in h /\ \A j \in 1 .. n + 1 : s[j] # OkRelease
    BY <1>3, <1>4, <2>1 DEF HoldsAfter
  <2>2. ASSUME NEW m \in 1 .. n + 1, s[m] = OkPress, \A j \in m + 1 .. n + 1 : s[j] # OkRelease
        PROVE  HoldsAfter(r, after, n)
    <3>1. CASE m = 1
      <4>1. "ok" \in after /\ \A j \in 1 .. n : j + 1 \in m + 1 .. n + 1
        BY <2>2, <3>1
      <4>2. QED
        BY <1>3, <2>2, <4>1 DEF HoldsAfter
    <3>2. CASE m # 1
      <4>1. m - 1 \in 1 .. n /\ r[m - 1] = OkPress
        BY <1>4, <2>2, <3>2
      <4>2. \A j \in (m - 1) + 1 .. n : j + 1 \in m + 1 .. n + 1 /\ j \in 1 .. n
        BY <3>2
      <4>3. \A j \in (m - 1) + 1 .. n : r[j] # OkRelease
        BY <1>3, <2>2, <4>2
      <4>4. QED
        BY <4>1, <4>3 DEF HoldsAfter
    <3>3. QED
      BY <3>1, <3>2
  <2>3. QED
    BY <1>6, <2>1, <2>2 DEF HoldsAfter
<1>7. QED
  BY <1>5, <1>6

(* Between the Short and the Release of a key no other event is published.  *)
LEMMA ClickedIsNext ==
    ASSUME NavInv, NEW k \in Keys, NEW type \in Types, KeyEvent(k, type)
    PROVE  /\ phase["ok"] = "clicked" => k = "ok" /\ type = "Release"
           /\ k = "ok" /\ type = "Short" => phase'["ok"] = "clicked"
<1>1. "ok" \in Keys /\ phase \in [Keys -> {"up", "down", "clicked", "long"}]
  BY DEF NavInv, QueueTypes, Keys
<1>2. ASSUME phase["ok"] = "clicked", k # "ok" PROVE FALSE
  <2>1. ~ Publishing("ok")
    BY <1>1, <1>2 DEF KeyEvent
  <2>2. QED
    BY <1>2, <2>1 DEF Publishing
<1>3. ASSUME phase["ok"] = "clicked", k = "ok" PROVE type = "Release"
  BY <1>3 DEF KeyEvent, Types
<1>4. ASSUME k = "ok", type = "Short" PROVE phase'["ok"] = "clicked"
  <2>1. After("Short") = "clicked"
    BY DEF After
  <2>2. QED
    BY <1>1, <1>4, <2>1 DEF KeyEvent
<1>5. QED
  BY <1>2, <1>3, <1>4

(* Inputs that come keep the order of a click.                              *)
LEMMA PutKeepsClicks ==
    ASSUME NavInv, ClickInv, NEW k \in Keys, NEW type \in Types, Put(k, type)
    PROVE  ClickInv' /\ (ReleaseComes => ReleaseComes')
<1>1. PICK i : i = [key |-> k, type |-> type]
  OBVIOUS
<1>2. /\ inputs' = Append(inputs, i) /\ held' = held /\ KeyEvent(k, type)
      /\ inputs \in Seq([key : Keys, type : Types])
  BY <1>1 DEF Put, dispatcher, NavInv, QueueTypes
<1>3. PICK n \in Nat : n = Len(inputs)
  BY <1>2
<1>4. PICK r : r = inputs'
  OBVIOUS
<1>5. Len(r) = n + 1 /\ r # <<>> /\ r[n + 1] = i /\ \A j \in 1 .. n : r[j] = inputs[j]
  BY <1>1, <1>2, <1>3, <1>4
<1>6. /\ i = OkPress <=> k = "ok" /\ type = "Press"
      /\ i = OkRelease <=> k = "ok" /\ type = "Release"
      /\ i = OkShort <=> k = "ok" /\ type = "Short"
  BY <1>1 DEF OkPress, OkRelease, OkShort
<1>7. "ok" \in shown' <=> i = OkPress \/ (i # OkRelease /\ "ok" \in shown)
  <2>1. CASE type = "Press"
    BY <1>6, <2>1 DEF Put
  <2>2. CASE type = "Release"
    BY <1>6, <2>2 DEF Put
  <2>3. CASE type \notin {"Press", "Release"}
    BY <1>6, <2>3 DEF Put
  <2>4. QED
    BY <2>1, <2>2, <2>3
<1>8. /\ phase["ok"] = "clicked" => i = OkRelease
      /\ i = OkShort => phase'["ok"] = "clicked"
  BY <1>2, <1>6, ClickedIsNext
<1>9. ASSUME NEW m \in 0 .. n PROVE HoldsAfter(r, held, m) <=> HoldsAfter(inputs, held, m)
  <2>1. m \in Nat /\ \A j \in 1 .. m : r[j] = inputs[j]
    BY <1>5
  <2>2. PICK s : s = inputs
    OBVIOUS
  <2>3. PICK h : h = held
    OBVIOUS
  <2>4. HoldsAfter(r, h, m) <=> HoldsAfter(s, h, m)
    BY <2>1, <2>2, HoldsLonger
  <2>5. QED
    BY <2>2, <2>3, <2>4
<1>10. HoldsAfter(r, held, n + 1) <=> "ok" \in shown'
  <2>1. PICK h : h = held
    OBVIOUS
  <2>2. HoldsAfter(r, h, n + 1) <=> r[n + 1] = OkPress \/ (r[n + 1] # OkRelease /\ HoldsAfter(r, h, n))
    BY HoldsStep
  <2>3. HoldsAfter(r, h, n) <=> "ok" \in shown
    BY <1>3, <1>9, <2>1 DEF ClickInv
  <2>4. QED
    BY <1>5, <1>7, <2>1, <2>2, <2>3
<1>11. ASSUME NEW m \in 1 .. n + 1, r[m] = OkShort, HoldsAfter(r, held, m - 1)
       PROVE  IF m < n + 1 THEN r[m + 1] = OkRelease ELSE phase'["ok"] = "clicked"
  <2>1. CASE m = n + 1
    BY <1>5, <1>8, <1>11, <2>1
  <2>2. CASE m # n + 1
    <3>1. m \in 1 .. n /\ m - 1 \in 0 .. n /\ m < n + 1
      BY <2>2
    <3>2. inputs[m] = OkShort /\ HoldsAfter(inputs, held, m - 1)
      BY <1>5, <1>9, <1>11, <3>1
    <3>3. IF m < n THEN inputs[m + 1] = OkRelease ELSE phase["ok"] = "clicked"
      BY <1>3, <3>1, <3>2 DEF ClickInv
    <3>4. CASE m < n
      <4>1. m + 1 \in 1 .. n
        BY <3>4
      <4>2. QED
        BY <1>5, <3>1, <3>3, <3>4, <4>1
    <3>5. CASE ~ (m < n)
      <4>1. m = n
        BY <3>1, <3>5
      <4>2. QED
        BY <1>5, <1>8, <3>1, <3>3, <3>5, <4>1
    <3>6. QED
      BY <3>4, <3>5
  <2>3. QED
    BY <2>1, <2>2
<1>12. ClickInv'
  BY <1>2, <1>4, <1>5, <1>10, <1>11 DEF ClickInv
<1>13. ASSUME ReleaseComes PROVE ReleaseComes'
  <2>1. CASE inputs = <<>>
    <3>1. n = 0 /\ i = OkRelease
      BY <1>3, <1>8, <1>13, <2>1 DEF ReleaseComes
    <3>2. QED
      BY <1>4, <1>5, <3>1 DEF ReleaseComes
  <2>2. CASE inputs # <<>>
    <3>1. 1 \in 1 .. n
      BY <1>2, <1>3, <2>2
    <3>2. QED
      BY <1>4, <1>5, <1>13, <2>2, <3>1 DEF ReleaseComes
  <2>3. QED
    BY <2>1, <2>2
<1>14. QED
  BY <1>12, <1>13

(* The GUI cannot withhold the Release of a click that is answered.         *)
LEMMA WithholdKeepsClicks ==
    ASSUME NavInv, ClickInv, NEW k \in Keys, NEW type \in Types, Withhold(k, type)
    PROVE  ClickInv' /\ (ReleaseComes => ReleaseComes')
<1>1. UNCHANGED <<shown, inputs, held>> /\ inputs \in Seq([key : Keys, type : Types])
  BY DEF Withhold, dispatcher, NavInv, QueueTypes
<1>2. ~ (phase["ok"] = "clicked" /\ "ok" \in shown)
  BY ClickedIsNext DEF Withhold
<1>3. PICK n \in Nat : n = Len(inputs)
  BY <1>1
<1>4. ASSUME NEW m \in 1 .. n, inputs[m] = OkShort, HoldsAfter(inputs, held, m - 1)
      PROVE  m < n /\ inputs[m + 1] = OkRelease
  <2>1. IF m < n THEN inputs[m + 1] = OkRelease ELSE phase["ok"] = "clicked"
    BY <1>3, <1>4 DEF ClickInv
  <2>2. SUFFICES ASSUME ~ (m < n) PROVE FALSE
    BY <2>1
  <2>3. m = n /\ m - 1 \in Nat /\ n = (m - 1) + 1
    BY <2>2
  <2>4. PICK s : s = inputs
    OBVIOUS
  <2>5. PICK h : h = held
    OBVIOUS
  <2>6. PICK c \in Nat : c = m - 1
    BY <2>3
  <2>7. HoldsAfter(s, h, c + 1) <=> s[c + 1] = OkPress \/ (s[c + 1] # OkRelease /\ HoldsAfter(s, h, c))
    BY HoldsStep
  <2>8. OkShort # OkRelease
    BY DEF OkShort, OkRelease
  <2>9. HoldsAfter(inputs, held, n)
    BY <1>4, <2>3, <2>4, <2>5, <2>6, <2>7, <2>8
  <2>10. QED
    BY <1>2, <1>3, <2>1, <2>2, <2>9 DEF ClickInv
<1>5. ClickInv'
  BY <1>1, <1>3, <1>4 DEF ClickInv
<1>6. ReleaseComes => ReleaseComes'
  BY <1>1, <1>2 DEF ReleaseComes
<1>7. QED
  BY <1>5, <1>6

(* An input that is taken leaves the others in their order; when it is the  *)
(* Short of a click that was begun here, its Release is the next.           *)
LEMMA TakeInputKeepsClicks ==
    ASSUME NavInv, ClickInv, TakeInput
    PROVE  /\ ClickInv' /\ inputs # <<>> /\ inputs[1] = Head(inputs)
           /\ inputs[1] \in [key : Keys, type : Types]
           /\ inputs[1] = OkShort /\ "ok" \in held => ReleaseComes'
<1>1. inputs \in Seq([key : Keys, type : Types]) /\ Once(waiting)
      /\ waiting # <<>> /\ Head(waiting) = "input" /\ inputs' = Tail(inputs) /\ UNCHANGED <<phase, shown>>
  BY DEF TakeInput, NavInv, QueueTypes, keys
<1>2. inputs # <<>>
  <2>1. Contains(waiting, "input")
    BY <1>1, TailOnce
  <2>2. QED
    BY <2>1 DEF NavInv, QueuesInv
<1>3. PICK i : i = inputs[1]
  OBVIOUS
<1>4. i = Head(inputs) /\ i \in [key : Keys, type : Types]
  <2>1. Head(inputs) \in [key : Keys, type : Types]
    BY <1>1, <1>2, HeadTailProperties
  <2>2. Head(inputs) = inputs[1]
    BY <1>1, <1>2
  <2>3. QED
    BY <1>3, <2>1, <2>2
<1>5. /\ i = OkPress <=> i.key = "ok" /\ i.type = "Press"
      /\ i = OkRelease <=> i.key = "ok" /\ i.type = "Release"
  <2>1. PICK k \in Keys, type \in Types : i = [key |-> k, type |-> type]
    BY <1>4
  <2>2. QED
    BY <2>1 DEF OkPress, OkRelease
<1>6. "ok" \in held' <=> i = OkPress \/ (i # OkRelease /\ "ok" \in held)
  <2>1. "ok" \in HeldAfter(i) <=> i = OkPress \/ (i # OkRelease /\ "ok" \in held)
    <3>1. CASE i.type = "Press"
      BY <1>5, <3>1 DEF HeldAfter
    <3>2. CASE i.type = "Release"
      BY <1>5, <3>2 DEF HeldAfter
    <3>3. CASE i.type \notin {"Press", "Release"}
      BY <1>5, <3>3 DEF HeldAfter
    <3>4. QED
      BY <3>1, <3>2, <3>3
  <2>2. CASE Complementary(i)
    BY <1>4, <2>1, <2>2 DEF TakeInput
  <2>3. CASE ~ Complementary(i)
    <3>1. held' = held /\ i.type \notin {"Press", "Release"}
      BY <1>4, <2>3 DEF TakeInput, dispatcher, Complementary
    <3>2. QED
      BY <1>5, <3>1
  <2>4. QED
    BY <2>2, <2>3
<1>7. PICK n \in Nat : n + 1 = Len(inputs)
  <2>1. Len(inputs) \in Nat /\ Len(inputs) # 0
    BY <1>1, <1>2
  <2>2. PICK m \in Nat : m = Len(inputs)
    BY <2>1
  <2>3. m - 1 \in Nat /\ (m - 1) + 1 = m
    BY <2>1, <2>2
  <2>4. QED
    BY <2>2, <2>3
<1>8. PICK r : r = inputs'
  OBVIOUS
<1>9. Len(r) = n /\ \A j \in 1 .. n : r[j] = inputs[j + 1]
  BY <1>1, <1>2, <1>7, <1>8
<1>10. ASSUME NEW m \in 0 .. n
       PROVE  HoldsAfter(r, held', m) <=> HoldsAfter(inputs, held, m + 1)
  <2>1. PICK s : s = inputs
    OBVIOUS
  <2>2. PICK h : h = held
    OBVIOUS
  <2>3. PICK after : after = held'
    OBVIOUS
  <2>4. m \in Nat /\ \A j \in 1 .. m : r[j] = s[j + 1]
    BY <1>9, <2>1
  <2>5. "ok" \in after <=> s[1] = OkPress \/ (s[1] # OkRelease /\ "ok" \in h)
    BY <1>3, <1>6, <2>1, <2>2, <2>3
  <2>6. HoldsAfter(r, after, m) <=> HoldsAfter(s, h, m + 1)
    BY <2>4, <2>5, HoldsShorter
  <2>7. QED
    BY <2>1, <2>2, <2>3, <2>6
<1>11. HoldsAfter(r, held', n) <=> "ok" \in shown
  <2>1. HoldsAfter(r, held', n) <=> HoldsAfter(inputs, held, n + 1)
    BY <1>10
  <2>2. QED
    BY <1>7, <2>1 DEF ClickInv
<1>12. ASSUME NEW m \in 1 .. n, r[m] = OkShort, HoldsAfter(r, held', m - 1)
       PROVE  IF m < n THEN r[m + 1] = OkRelease ELSE phase["ok"] = "clicked"
  <2>1. m - 1 \in 0 .. n /\ (m - 1) + 1 = m /\ m + 1 \in 1 .. n + 1 /\ (m + 1) - 1 = m
    OBVIOUS
  <2>2. HoldsAfter(inputs, held, m) /\ inputs[m + 1] = OkShort
    <3>1. HoldsAfter(inputs, held, (m - 1) + 1)
      BY <1>10, <1>12, <2>1
    <3>2. QED
      BY <1>9, <1>12, <2>1, <3>1
  <2>3. IF m + 1 < n + 1 THEN inputs[(m + 1) + 1] = OkRelease ELSE phase["ok"] = "clicked"
    BY <1>7, <2>1, <2>2 DEF ClickInv
  <2>4. CASE m < n
    <3>1. m + 1 \in 1 .. n /\ m + 1 < n + 1
      BY <2>4
    <3>2. QED
      BY <1>9, <2>3, <2>4, <3>1
  <2>5. CASE ~ (m < n)
    BY <2>3, <2>5
  <2>6. QED
    BY <2>4, <2>5
<1>13. ClickInv'
  BY <1>1, <1>8, <1>9, <1>11, <1>12 DEF ClickInv
<1>14. ASSUME i = OkShort, "ok" \in held PROVE ReleaseComes'
  <2>1. HoldsAfter(inputs, held, 0)
    BY <1>14 DEF HoldsAfter
  <2>2. 1 \in 1 .. n + 1 /\ 1 - 1 = 0
    OBVIOUS
  <2>3. IF 1 < n + 1 THEN inputs[1 + 1] = OkRelease ELSE phase["ok"] = "clicked"
    <3>1. inputs[1] = OkShort /\ HoldsAfter(inputs, held, 1 - 1)
      BY <1>3, <1>14, <2>1, <2>2
    <3>2. QED
      BY <1>7, <2>2, <3>1 DEF ClickInv
  <2>4. CASE n = 0
    <3>1. "ok" \in held'
      BY <1>6, <1>14 DEF OkShort, OkRelease
    <3>2. HoldsAfter(r, held', 0)
      BY <3>1 DEF HoldsAfter
    <3>3. phase["ok"] = "clicked" /\ "ok" \in shown
      BY <1>11, <2>3, <2>4, <3>2
    <3>4. r = <<>>
      BY <1>1, <1>2, <1>8, <1>9, <2>4
    <3>5. QED
      BY <1>1, <1>8, <3>3, <3>4 DEF ReleaseComes
  <2>5. CASE n # 0
    <3>1. 1 < n + 1 /\ 1 \in 1 .. n
      BY <2>5
    <3>2. r # <<>> /\ r[1] = OkRelease
      BY <1>9, <2>3, <2>5, <3>1
    <3>3. QED
      BY <1>8, <3>2 DEF ReleaseComes
  <2>6. QED
    BY <2>4, <2>5
<1>15. QED
  BY <1>2, <1>3, <1>4, <1>13, <1>14

(* The way back to the list finds the id that was chosen, whatever ids came *)
(* in the meantime.                                                         *)
LEMMA BackToList ==
    ASSUME NavInv, ChoiceInv, NEW items \in Snapshots, NEW b, b = OnBack(app, items),
           Top(b) = "Canbus", Top(app) # "Canbus"
    PROVE  Top(app) = "CanbusDetail" /\ SelectedId(b) = app.id /\ Contains(b.items, app.id)
<1>1. Top(app) # "Dashboard" /\ AppGood(app)
  <2>1. Top(app) = "Dashboard" => b = app
    BY DEF OnBack
  <2>2. QED
    BY <2>1 DEF NavInv
<1>2. b = PreviousScene(app, items) /\ items \in Seq(Ids)
  BY <1>1, SnapshotIs DEF OnBack
<1>3. Top(b) = Parent[Top(app)] /\ Top(app) \in DOMAIN Parent /\ Moves(app, b, items)
  BY <1>1, <1>2, GoesBack
<1>4. Top(app) = "CanbusDetail"
  BY <1>3, SceneNames
<1>5. app.state.Canbus = app.id /\ Contains(app.items, app.id)
  BY <1>4 DEF ChoiceInv
<1>6. Contains(items, app.id)
  BY <1>5, SnapshotIs
<1>7. b.items = items /\ b.state.Canbus = app.state.Canbus
      /\ (Contains(items, b.state.Canbus) => SelectedId(b) = b.state.Canbus)
  BY <1>3, <1>4 DEF Moves
<1>8. QED
  BY <1>4, <1>5, <1>6, <1>7

(* An input that is taken leaves an event of the list its choice: it is the *)
(* Release of the click, or it comes when the list is not shown.            *)
LEMMA TakeInputKeepsChoice ==
    ASSUME NavInv, ClickInv, ChoiceInv, TakeInput
    PROVE  /\ ChoiceInv'
           /\ Top(app) = "CanbusDetail" /\ Top(app') = "Canbus" => SelectedId(app') = app.id
<1>1. /\ pc = "wait" /\ First(waiting, "input") /\ events' = events
      /\ events \in Seq(Event) /\ Len(events) \in Nat /\ Len(events) <= 1
      /\ events # <<>> => First(waiting', "event")
  BY TakeInputKeeps
<1>2. /\ inputs # <<>> /\ inputs[1] = Head(inputs)
      /\ inputs[1] \in [key : Keys, type : Types]
      /\ inputs[1] = OkShort /\ "ok" \in held => ReleaseComes'
  BY TakeInputKeepsClicks
<1>3. PICK i \in [key : Keys, type : Types] : i = inputs[1]
  BY <1>2
<1>4. AppGood(app) /\ app \in AppType /\ CursorIn(app)
  BY DEF NavInv, AppGood
<1>5. PICK b : b = app'
  OBVIOUS
<1>6. PICK n \in Nat : n = Len(events)
  BY <1>1
<1>7. (n = 0 \/ n = 1) /\ \A m \in 1 .. n : m = 1 /\ n = 1
  BY <1>1, <1>6
<1>8. ASSUME n = 1
      PROVE  /\ First(waiting', "event") /\ Kept(events[1], app)
             /\ events[1].from = "Canbus" /\ Top(app) = "Canbus"
                  => /\ SelectedId(app) = events[1].choice /\ Contains(app.items, events[1].choice)
                     /\ i = OkRelease
  <2>1. 1 \in 1 .. Len(events) /\ events # <<>>
    <3>1. Len(events) = 1
      BY <1>6, <1>8
    <3>2. 1 \in 1 .. 1 /\ Len(<<>>) # 1
      OBVIOUS
    <3>3. QED
      BY <3>1, <3>2
  <2>2. Kept(events[1], app)
    BY <2>1 DEF NavInv, EventsInv, Sound
  <2>3. ~ First(waiting, "event")
    BY <1>1 DEF First
  <2>4. events[1].from = "Canbus" /\ Top(app) = "Canbus"
          => /\ SelectedId(app) = events[1].choice /\ Contains(app.items, events[1].choice)
             /\ ReleaseComes \/ (1 = 1 /\ First(waiting, "event"))
    BY <2>1 DEF ChoiceInv
  <2>5. ReleaseComes => i = OkRelease
    BY <1>2, <1>3 DEF ReleaseComes
  <2>6. QED
    BY <1>1, <2>1, <2>2, <2>3, <2>4, <2>5
<1>9. SUFFICES
        /\ pc' = "ok" /\ Top(b) = "Canbus" => ReleaseComes' /\ Contains(b.items, b.id)
        /\ n = 1 /\ events[1].from = "Canbus" /\ Top(b) = "Canbus"
             => SelectedId(b) = events[1].choice /\ Contains(b.items, events[1].choice)
        /\ Top(b) = "CanbusDetail" => b.state.Canbus = b.id /\ Contains(b.items, b.id)
        /\ Top(app) = "CanbusDetail" /\ Top(b) = "Canbus" => SelectedId(b) = app.id
  BY <1>1, <1>5, <1>6, <1>7, <1>8 DEF ChoiceInv
<1>10. Top(app) = "CanbusDetail" => app.state.Canbus = app.id /\ Contains(app.items, app.id)
  BY DEF ChoiceInv
<1>11. CASE ~ Complementary(i)
  <2>1. b = app /\ pc' = "wait"
    BY <1>1, <1>2, <1>3, <1>5, <1>11 DEF TakeInput
  <2>2. QED
    BY <1>8, <1>10, <2>1
<1>12. CASE Complementary(i)
  <2>1. PICK v : v = Recipient(i)
    OBVIOUS
  <2>2. PICK sends \in BOOLEAN : sends <=> v = app.view /\ Sends(app, v, i)
    OBVIOUS
  <2>3. v \in Views \cup {"none"}
    BY <2>1, RecipientIsView
  <2>4. pc' = (IF sends THEN i.key ELSE "wait") /\ Answers(i, v, sends, b)
    BY <1>2, <1>3, <1>5, <1>12, <2>1, <2>2 DEF TakeInput, Answers
  <2>5. /\ Top(b) # "SettingsAbout"
        /\ sends => Top(b) \in Senders /\ i.key = "ok" /\ (Top(b) = "Canbus" => b.id = SelectedId(b))
    BY <1>1, <2>3, <2>4, InputOnApp
  <2>6. CASE NavigatesBack(i, v)
    <3>1. PICK items \in Snapshots : b = OnBack(app, items)
      BY <2>4, <2>6 DEF Answers
    <3>2. pc' = "wait"
      BY <2>4, <2>6 DEF Answers, NavigatesBack, Sends
    <3>3. CASE Top(app) = "Dashboard"
      <4>1. b = app
        BY <3>1, <3>3 DEF OnBack
      <4>2. QED
        BY <3>2, <3>3, <4>1
    <3>4. CASE Top(app) # "Dashboard"
      <4>1. b = PreviousScene(app, items) /\ items \in Seq(Ids)
        BY <3>1, <3>4, SnapshotIs DEF OnBack
      <4>2. Top(b) = Parent[Top(app)] /\ Top(app) \in DOMAIN Parent
        BY <1>4, <3>4, <4>1, GoesBack
      <4>3. Top(b) # "CanbusDetail" /\ (Top(b) = "Canbus" => Top(app) # "Canbus")
        BY <4>2, SceneNames
      <4>4. Top(b) = "Canbus" => SelectedId(b) = app.id /\ Contains(b.items, app.id)
        BY <3>1, <4>3, BackToList
      <4>5. n = 1 /\ events[1].from = "Canbus" => app.id = events[1].choice
        BY <1>8 DEF Kept
      <4>6. QED
        BY <3>2, <4>3, <4>4, <4>5
    <3>5. QED
      BY <3>3, <3>4
  <2>7. CASE ~ NavigatesBack(i, v) /\ sends
    <3>1. b = Chosen(app, v) /\ v = app.view /\ Sends(app, v, i) /\ v \in Views
      BY <1>4, <2>4, <2>7, AppFields DEF Answers
    <3>2. b.items = app.items /\ b.scenes = app.scenes /\ SelectedId(b) = SelectedId(app)
      BY <1>4, <3>1, ChosenKeeps
    <3>3. Top(b) = Top(app) /\ Top(b) \in Senders /\ Top(b) # "CanbusDetail"
      BY <2>5, <2>7, <3>2 DEF Top, Senders
    <3>4. i # OkRelease
      <4>1. i.type \in {"Short", "Repeat"}
        BY <3>1 DEF Sends
      <4>2. QED
        BY <4>1 DEF OkRelease
    <3>5. ~ (n = 1 /\ events[1].from = "Canbus" /\ Top(b) = "Canbus")
      BY <1>8, <3>3, <3>4
    <3>6. ASSUME Top(b) = "Canbus" PROVE ReleaseComes' /\ Contains(b.items, b.id)
      <4>1. v = "canbusSubmenu"
        <5>1. app.view = ViewOf["Canbus"]
          BY <1>4, <3>3, <3>6 DEF AppGood
        <5>2. QED
          BY <3>1, <5>1 DEF ViewOf
      <4>2. i.key = "ok" /\ i.type = "Short" /\ app.items # <<>>
        BY <3>1, <4>1 DEF Sends
      <4>3. i = OkShort
        <5>1. PICK k \in Keys, type \in Types : i = [key |-> k, type |-> type]
          OBVIOUS
        <5>2. QED
          BY <4>2, <5>1 DEF OkShort
      <4>4. "ok" \in held
        BY <1>12, <4>2 DEF Complementary
      <4>5. Contains(app.items, SelectedId(app))
        BY <1>4, <4>2, SelectedListed
      <4>6. QED
        BY <1>2, <1>3, <2>5, <2>7, <3>2, <3>6, <4>3, <4>4, <4>5
    <3>7. QED
      BY <3>3, <3>5, <3>6
  <2>8. CASE ~ NavigatesBack(i, v) /\ ~ sends
    <3>1. b = Moved(app, v, i) /\ pc' = "wait"
      BY <2>4, <2>8 DEF Answers
    <3>2. b.items = app.items /\ b.scenes = app.scenes /\ b.state = app.state /\ b.id = app.id
      BY <1>4, <3>1, MovedKeeps
    <3>3. Top(b) = Top(app)
      BY <3>2 DEF Top
    <3>4. i = OkRelease => b = app
      <4>1. i = OkRelease => i.type \notin {"Short", "Repeat"}
        BY DEF OkRelease
      <4>2. QED
        BY <3>1, <4>1 DEF Moved
    <3>5. QED
      BY <1>8, <1>10, <3>1, <3>2, <3>3, <3>4
  <2>9. QED
    BY <2>6, <2>7, <2>8
<1>13. QED
  BY <1>11, <1>12

(* The invariant of the list.                                               *)
ListInv == NavInv /\ ClickInv /\ ChoiceInv

(* Every step keeps it.                                                     *)
LEMMA ListStepKeeps == ListInv /\ [Next]_vars => ListInv'
<1> SUFFICES ASSUME NavInv, ClickInv, ChoiceInv, [Next]_vars PROVE ListInv'
  BY DEF ListInv
<1>1. NavInv'
  BY StepKeeps
<1>2. \A n \in 1 .. Len(events) :
          events[n].from = "Canbus" /\ Top(app) = "Canbus"
            => /\ SelectedId(app) = events[n].choice /\ Contains(app.items, events[n].choice)
               /\ ReleaseComes \/ (n = 1 /\ First(waiting, "event"))
  BY DEF ChoiceInv
<1>3. events \in Seq(Event) /\ Len(events) \in Nat /\ Once(waiting)
  BY DEF NavInv, QueueTypes
<1>4. ASSUME NEW k \in Keys, NEW type \in Types, Put(k, type) PROVE ListInv'
  <2>1. UNCHANGED <<events, pc, app>> /\ ClickInv' /\ (ReleaseComes => ReleaseComes')
    BY <1>4, PutKeepsClicks DEF Put
  <2>2. First(waiting, "event") => First(waiting', "event")
    <3>1. PICK r : r = waiting'
      OBVIOUS
    <3>2. PICK q : q = inputs'
      OBVIOUS
    <3>3. r = Linked(waiting, "input", q) /\ "input" \in Items
      BY <1>4, <3>1, <3>2 DEF Put, Items
    <3>4. waiting # <<>> => r # <<>> /\ r[1] = waiting[1]
      BY <1>3, <3>3, LinkedOnce
    <3>5. QED
      BY <3>1, <3>4 DEF First
  <2>3. ChoiceInv'
    BY <2>1, <2>2 DEF ChoiceInv
  <2>4. QED
    BY <1>1, <2>1, <2>3 DEF ListInv
<1>5. ASSUME NEW k \in Keys, NEW type \in Types, Withhold(k, type) PROVE ListInv'
  <2>1. UNCHANGED <<events, pc, app, waiting>> /\ ClickInv' /\ (ReleaseComes => ReleaseComes')
    BY <1>5, WithholdKeepsClicks DEF Withhold
  <2>2. ChoiceInv'
    BY <2>1 DEF ChoiceInv
  <2>3. QED
    BY <1>1, <2>1, <2>2 DEF ListInv
<1>6. CASE TakeInput
  BY <1>1, <1>6, TakeInputKeepsClicks, TakeInputKeepsChoice DEF ListInv
<1>7. ASSUME UNCHANGED <<phase, shown, inputs, held>>, ChoiceInv' PROVE ListInv'
  <2>1. ClickInv'
    BY <1>7 DEF ClickInv
  <2>2. QED
    BY <1>1, <1>7, <2>1 DEF ListInv
<1>8. UNCHANGED <<phase, shown, inputs>> => (ReleaseComes' <=> ReleaseComes)
  BY DEF ReleaseComes
<1>9. CASE Send
  <2>1. /\ UNCHANGED <<phase, shown, inputs, held, app>> /\ pc' = "wait" /\ pc \in Keys
    BY <1>9 DEF Send, keys, dispatcher
  <2>2. PICK e : e.from = Top(app) /\ e.choice = Choice(app, app.view) /\ events' = Append(events, e)
    <3>1. PICK e : /\ e = [code |-> Number(app.view, pc), from |-> Top(app), choice |-> Choice(app, app.view)]
                   /\ events' = Append(events, e)
      BY <1>9 DEF Send
    <3>2. QED
      BY <3>1
  <2>3. PICK m \in Nat : m = Len(events)
    BY <1>3
  <2>4. PICK q : q = events'
    OBVIOUS
  <2>5. Len(q) = m + 1 /\ q[m + 1] = e /\ \A n \in 1 .. m : q[n] = events[n]
    BY <1>3, <2>2, <2>3, <2>4
  <2>6. Len(q) = 2 => First(waiting', "event")
    BY <1>1, <2>4 DEF NavInv, QueuesInv
  <2>7. m <= 1
    BY <2>1, <2>3 DEF NavInv, QueuesInv
  <2>8. Top(app) = "Canbus" => /\ ReleaseComes /\ e.choice = SelectedId(app)
                               /\ Contains(app.items, e.choice)
    <3>1. SUFFICES ASSUME Top(app) = "Canbus"
                   PROVE  ReleaseComes /\ e.choice = SelectedId(app) /\ Contains(app.items, e.choice)
      OBVIOUS
    <3>2. pc = "ok" /\ app.id = SelectedId(app)
      BY <2>1, <3>1 DEF NavInv, SendsInv
    <3>3. ReleaseComes /\ Contains(app.items, app.id)
      BY <3>1, <3>2 DEF ChoiceInv
    <3>4. app.view = "canbusSubmenu"
      BY <3>1 DEF NavInv, AppGood, ViewOf
    <3>5. Choice(app, app.view) = SelectedId(app)
      BY <3>4 DEF Choice
    <3>6. QED
      BY <2>2, <3>2, <3>3, <3>5
  <2>9. ASSUME NEW n \in 1 .. Len(q), q[n].from = "Canbus", Top(app) = "Canbus"
        PROVE  /\ SelectedId(app) = q[n].choice /\ Contains(app.items, q[n].choice)
               /\ ReleaseComes \/ (n = 1 /\ First(waiting', "event"))
    <3>1. CASE n = m + 1
      BY <2>5, <2>8, <2>9, <3>1
    <3>2. CASE n # m + 1
      <4>1. n \in 1 .. m /\ n = 1 /\ m = 1
        BY <2>5, <2>7, <3>2
      <4>2. q[n] = events[n] /\ n \in 1 .. Len(events)
        BY <2>3, <2>5, <4>1
      <4>3. SelectedId(app) = events[n].choice /\ Contains(app.items, events[n].choice)
        BY <1>2, <2>9, <4>2
      <4>4. First(waiting', "event")
        BY <2>5, <2>6, <4>1
      <4>5. QED
        BY <4>1, <4>2, <4>3, <4>4
    <3>3. QED
      BY <3>1, <3>2
  <2>10. Top(app) = "CanbusDetail" => app.state.Canbus = app.id /\ Contains(app.items, app.id)
    BY DEF ChoiceInv
  <2>11. ChoiceInv'
    BY <1>8, <2>1, <2>4, <2>9, <2>10 DEF ChoiceInv
  <2>12. QED
    BY <1>7, <2>1, <2>11
<1>10. CASE TakeEvent
  <2>1. /\ events # <<>> /\ Len(events) \in {1, 2} /\ events' = Tail(events)
        /\ events[1] \in Event /\ Sound(events[1], app)
        /\ \E items \in Seq(Ids) : app' = OnCustom(app, events[1].code, items)
    BY <1>10, TakesEvent
  <2>2. UNCHANGED <<phase, shown, inputs, held>> /\ pc' \in {"wait", "about"} /\ AppGood(app)
    BY <1>10 DEF TakeEvent, keys, dispatcher, NavInv
  <2>3. PICK b : b = app'
    OBVIOUS
  <2>4. PICK e \in Event : e = events[1]
    BY <2>1
  <2>5. PICK items \in Seq(Ids) : b = OnCustom(app, e.code, items)
    BY <2>1, <2>3, <2>4
  <2>6. PICK code : code = e.code
    OBVIOUS
  <2>7. /\ b.id = app.id
        /\ b = app \/ Top(b) # Top(app)
        /\ b # app => /\ Top(b) = "CanbusDetail" => Top(app) = "Canbus" /\ b.items = app.items
                                                    /\ b.state.Canbus = SelectedId(app)
    <3>1. /\ b.id = app.id
          /\ Goal(app, code) = "none" => b = app
          /\ Goal(app, code) = "below" => Top(b) = "Dashboard"
          /\ Goal(app, code) \notin {"none", "below"} => Top(b) = Goal(app, code)
          /\ Goal(app, code) # "none" => Top(b) # Top(app)
          /\ Goal(app, code) = "CanbusDetail"
               => Top(app) = "Canbus" /\ b.items = app.items /\ b.state.Canbus = SelectedId(app)
      BY <2>2, <2>5, <2>6, CustomMoves
    <3>2. QED
      BY <3>1
  <2>8. b # app => e.from = Top(app)
    <3>1. Sound(e, app)
      BY <2>1, <2>4
    <3>2. QED
      BY <2>2, <2>5, <3>1, CustomOpens
  <2>9. Top(b) = "CanbusDetail" => b.state.Canbus = b.id /\ Contains(b.items, b.id)
    <3>1. CASE b = app
      BY <3>1 DEF ChoiceInv
    <3>2. CASE b # app
      <4>1. 1 \in 1 .. Len(events) /\ Kept(e, app)
        BY <2>1, <2>4 DEF Sound
      <4>2. Top(app) = "Canbus" => SelectedId(app) = e.choice /\ Contains(app.items, e.choice)
        BY <1>2, <2>4, <2>8, <3>2, <4>1
      <4>3. Top(app) = "Canbus" => app.id = e.choice
        BY <2>8, <3>2, <4>1 DEF Kept
      <4>4. QED
        BY <2>7, <3>2, <4>2, <4>3
    <3>3. QED
      BY <3>1, <3>2
  <2>10. PICK q : q = events'
    OBVIOUS
  <2>11. Len(q) + 1 = Len(events) /\ (Len(events) = 2 => q[1] = events[2]) /\ Len(q) \in Nat
    BY <1>3, <2>1, <2>10
  <2>12. ASSUME NEW n \in 1 .. Len(q), q[n].from = "Canbus", Top(b) = "Canbus"
         PROVE  SelectedId(b) = q[n].choice /\ Contains(b.items, q[n].choice) /\ ReleaseComes
    <3>1. PICK m \in Nat : m = Len(q)
      BY <2>11
    <3>2. n = 1 /\ Len(events) = 2
      <4>1. PICK l \in {1, 2} : l = Len(events)
        BY <2>1
      <4>2. m + 1 = l /\ n \in 1 .. m
        BY <2>11, <3>1, <4>1
      <4>3. n = 1 /\ l = 2
        BY <4>2
      <4>4. QED
        BY <4>1, <4>3
    <3>3. q[n] = events[2] /\ 2 \in 1 .. Len(events) /\ events[2].from = Top(app)
      BY <2>11, <3>2 DEF NavInv, EventsInv
    <3>4. b = app
      BY <2>7, <2>12, <3>3
    <3>5. SelectedId(app) = events[2].choice /\ Contains(app.items, events[2].choice) /\ ReleaseComes
      <4>1. 2 # 1
        OBVIOUS
      <4>2. QED
        BY <1>2, <2>12, <3>3, <3>4, <4>1
    <3>6. QED
      BY <3>3, <3>4, <3>5
  <2>13. pc' # "ok"
    BY <2>2
  <2>14. ChoiceInv'
    BY <1>8, <2>2, <2>3, <2>9, <2>10, <2>12, <2>13 DEF ChoiceInv
  <2>15. QED
    BY <1>7, <2>2, <2>14
<1>11. CASE AboutReturn
  <2>1. UNCHANGED <<phase, shown, inputs, held>> /\ pc' = "wait" /\ Top(app') = "Settings"
    BY <1>11, AboutReturnKeeps DEF AboutReturn, keys, dispatcher
  <2>2. ChoiceInv'
    BY <2>1 DEF ChoiceInv
  <2>3. QED
    BY <1>7, <2>1, <2>2
<1>12. CASE Tick
  <2>1. /\ UNCHANGED <<phase, shown, inputs, held, events>> /\ pc = "wait" /\ pc' = pc
        /\ waiting = <<>>
    BY <1>12 DEF Tick, keys, dispatcher
  <2>2. events = <<>>
    <3>1. ~ Contains(waiting, "event")
      BY <2>1 DEF Contains
    <3>2. QED
      BY <2>1, <3>1 DEF NavInv, QueuesInv
  <2>3. Top(app') = Top(app) /\ (Top(app) # "Canbus" => app' = app)
    BY <1>12, TickKeeps
  <2>4. Top(app') = "CanbusDetail" => app'.state.Canbus = app'.id /\ Contains(app'.items, app'.id)
    BY <2>3 DEF ChoiceInv
  <2>5. Len(events') = 0
    BY <2>1, <2>2
  <2>6. ChoiceInv'
    BY <2>1, <2>4, <2>5 DEF ChoiceInv
  <2>7. QED
    BY <1>7, <2>1, <2>6
<1>13. CASE UNCHANGED vars
  <2>1. UNCHANGED <<phase, shown, inputs, held, events, waiting, pc, app>>
    BY <1>13 DEF vars, keys, dispatcher
  <2>2. ChoiceInv'
    BY <1>8, <2>1 DEF ChoiceInv
  <2>3. QED
    BY <1>7, <2>1, <2>2
<1>14. QED
  BY <1>4, <1>5, <1>6, <1>9, <1>10, <1>11, <1>12, <1>13 DEF Next

(* It holds at first.                                                       *)
LEMMA InitKeepsList == Init => ListInv
<1>1. SUFFICES ASSUME Init PROVE ListInv
  OBVIOUS
<1>2. NavInv
  BY <1>1, InitKeeps
<1>3. inputs = <<>> /\ events = <<>> /\ held = {} /\ shown = {} /\ pc = "wait"
      /\ app.scenes = <<"Dashboard">>
  BY <1>1 DEF Init
<1>4. Top(app) = "Dashboard" /\ Len(inputs) = 0 /\ Len(events) = 0
  BY <1>3 DEF Top, Last
<1>5. ClickInv
  BY <1>3, <1>4 DEF ClickInv, HoldsAfter
<1>6. ChoiceInv
  BY <1>3, <1>4 DEF ChoiceInv
<1>7. QED
  BY <1>2, <1>5, <1>6 DEF ListInv

(* The list of CAN ids keeps its cursor on its id: on every tick, and on    *)
(* the way back from the details of the one that was chosen.                *)
THEOREM ListKeepsSelection == Spec => SelectionKept
<1> DEFINE Selected ==
        /\ Tick /\ Top(app) = "Canbus" /\ app.items # <<>> => SelectedId(app') = SelectedId(app)
        /\ Top(app) = "CanbusDetail" /\ Top(app') = "Canbus" => SelectedId(app') = app.id
<1>1. Init => ListInv
  BY InitKeepsList
<1>2. ListInv /\ [Next]_vars => ListInv'
  BY ListStepKeeps
<1>3. ListInv /\ [Next]_vars => [Selected]_vars
  <2>1. SUFFICES ASSUME NavInv, ClickInv, ChoiceInv, Next PROVE Selected
    BY DEF ListInv
  <2>2. Tick /\ Top(app) = "Canbus" /\ app.items # <<>> => SelectedId(app') = SelectedId(app)
    BY <2>1, TickKeeps
  <2>3. ASSUME Top(app) = "CanbusDetail", Top(app') = "Canbus" PROVE SelectedId(app') = app.id
    <3>1. app' # app
      BY <2>3
    <3>2. CASE TakeInput
      BY <2>1, <2>3, <3>2, TakeInputKeepsChoice
    <3>3. CASE TakeEvent
      <4>1. \E items \in Seq(Ids) : app' = OnCustom(app, events[1].code, items)
        BY <2>1, <3>3, TakesEvent
      <4>2. PICK code : code = events[1].code
        OBVIOUS
      <4>3. Goal(app, code) = "none"
        BY <2>3 DEF Goal
      <4>4. app' = app
        BY <4>1, <4>2, <4>3 DEF OnCustom
      <4>5. QED
        BY <3>1, <4>4
    <3>4. CASE AboutReturn
      BY <2>1, <2>3, <3>4, AboutReturnKeeps
    <3>5. CASE Tick
      BY <2>1, <2>3, <3>5, TickKeeps
    <3>6. CASE Send \/ \E k \in Keys, type \in Types : Put(k, type) \/ Withhold(k, type)
      BY <3>1, <3>6 DEF Send, Put, Withhold
    <3>7. QED
      BY <2>1, <3>2, <3>3, <3>4, <3>5, <3>6 DEF Next
  <2>4. QED
    BY <2>2, <2>3
<1>4. QED
  BY <1>1, <1>2, <1>3, PTL DEF Spec, SelectionKept
-----------------------------------------------------------------------------
(* Clicks.                                                                  *)

(* The keys that are down belong to the view that the dispatcher chose when *)
(* the first of them went down.                                             *)
TargetInv ==
    /\ \A k \in Keys : pressedIn[k] # "none" => k \in held /\ pressedIn[k] = target
    /\ target = app.view => \A k \in held : pressedIn[k] = target

(* While another view is shown than the one the keys belong to, no input    *)
(* and no event leads anywhere: an event that waits is not of the scene on  *)
(* top.  Such an event is handled before any input but one.                 *)
Stale(e) == e.from # Top(app)
Away == held # {} /\ target # app.view
AwayInv ==
    /\ Away => pc \notin Keys /\ \A n \in 1 .. Len(events) : Stale(events[n])
    /\ pc \in Keys => held # {}
    /\ \A n \in 1 .. Len(events) :
          Stale(events[n]) => held = {} \/ target # app.view \/ First(waiting, "event")
    /\ pc = "about" => events = <<>>

(* Two events wait only when both are of the dashboard, whose Ok repeats:   *)
(* after a click in a list the Release comes first.                         *)
PairInv ==
    /\ pc \in Keys => Top(app) = "Dashboard" \/ ReleaseComes
    /\ \A n \in 1 .. Len(events) :
          events[n].from = "Dashboard" \/ ReleaseComes \/ (n = 1 /\ First(waiting, "event"))
    /\ (pc \in Keys /\ Len(events) = 1) \/ Len(events) = 2
          => events[1].from = "Dashboard" /\ Top(app) = "Dashboard"

FocusInv == TargetInv /\ AwayInv /\ PairInv

(* Where an input may lead: a Press or a Release nowhere; the rest only     *)
(* from the view that the keys belong to.                                   *)
LEMMA InputLeads ==
    ASSUME NavInv, pc = "wait", NEW i \in [key : Keys, type : Types],
           NEW sends \in BOOLEAN, NEW b, Answers(i, Recipient(i), sends, b), Complementary(i)
    PROVE  \/ ~ sends /\ Top(b) = Top(app) /\ b.view = app.view
           \/ /\ i.type \notin {"Press", "Release"} /\ i.key \in held /\ target = app.view /\ ~ sends
              /\ Top(app) \in DOMAIN Parent /\ Top(b) = Parent[Top(app)] /\ b.view # app.view
           \/ /\ i.type \notin {"Press", "Release"} /\ i.key \in held /\ target = app.view /\ sends
              /\ Top(b) = Top(app) /\ b.view = app.view /\ i.key = "ok"
              /\ i.type = "Short" \/ Top(app) = "Dashboard"
<1>1. PICK v : v = Recipient(i)
  OBVIOUS
<1>2. /\ AppGood(app) /\ app \in AppType /\ CursorIn(app) /\ Top(app) # "SettingsAbout"
      /\ app.view = ViewOf[Top(app)]
  BY DEF NavInv, SendsInv, AppGood
<1>3. Top(app) \in Scenes
  <2>1. PICK a : a = app
    OBVIOUS
  <2>2. QED
    BY <1>2, <2>1, TopIsScene
<1>4. app.view # "none"
  <2>1. PICK s \in Scenes : s = Top(app)
    BY <1>3
  <2>2. QED
    BY <1>2, <2>1, ViewScenes
<1>5. ASSUME i.type \notin {"Press", "Release"}
      PROVE  i.key \in held /\ (v = app.view => target = app.view)
  <2>1. TargetAfter(i) = target
    BY <1>5 DEF TargetAfter
  <2>2. QED
    BY <1>1, <1>4, <1>5, <2>1 DEF Recipient, Complementary
<1>6. CASE NavigatesBack(i, v)
  <2>1. PICK items \in Snapshots : b = OnBack(app, items)
    BY <1>1, <1>6 DEF Answers
  <2>2. ~ sends /\ i.type \notin {"Press", "Release"} /\ v = app.view
    BY <1>1, <1>6 DEF NavigatesBack, Sends, Answers
  <2>3. CASE Top(app) = "Dashboard"
    BY <2>1, <2>2, <2>3 DEF OnBack
  <2>4. CASE Top(app) # "Dashboard"
    <3>1. b = PreviousScene(app, items) /\ items \in Seq(Ids)
      BY <2>1, <2>4, SnapshotIs DEF OnBack
    <3>2. AppGood(b) /\ Top(b) = Parent[Top(app)] /\ Top(app) \in DOMAIN Parent
      BY <1>2, <2>4, <3>1, GoesBack
    <3>3. b.view = ViewOf[Top(b)]
      BY <3>2 DEF AppGood
    <3>4. ViewOf[Parent[Top(app)]] # ViewOf[Top(app)]
      BY <1>2, <3>2, SceneNames DEF ViewOf
    <3>5. QED
      BY <1>2, <1>5, <2>2, <3>2, <3>3, <3>4
  <2>5. QED
    BY <2>3, <2>4
<1>7. CASE ~ NavigatesBack(i, v) /\ sends
  <2>1. b = Chosen(app, v) /\ v = app.view /\ Sends(app, v, i)
    BY <1>1, <1>7 DEF Answers
  <2>2. v \in Views
    BY <1>2, <2>1, AppFields
  <2>3. b.scenes = app.scenes /\ b.view = app.view
    BY <1>2, <2>1, <2>2, ChosenKeeps
  <2>4. i.key = "ok" /\ i.type \in {"Short", "Repeat"} /\ (i.type = "Short" \/ v = "dashboard")
    BY <2>1 DEF Sends
  <2>5. v = "dashboard" => Top(app) = "Dashboard"
    <3>1. PICK s \in Scenes : s = Top(app)
      BY <1>3
    <3>2. QED
      BY <1>2, <2>1, <3>1, ViewScenes
  <2>6. QED
    BY <1>5, <1>7, <2>1, <2>3, <2>4, <2>5 DEF Top
<1>8. CASE ~ NavigatesBack(i, v) /\ ~ sends
  <2>1. b = Moved(app, v, i)
    BY <1>1, <1>8 DEF Answers
  <2>2. b.scenes = app.scenes /\ b.view = app.view
    BY <1>2, <2>1, MovedKeeps
  <2>3. QED
    BY <1>8, <2>2 DEF Top
<1>9. QED
  BY <1>6, <1>7, <1>8

(* The dispatcher gives a key to one view, from its Press to its Release.   *)
LEMMA InputKeepsTarget ==
    ASSUME NavInv, TargetInv, NEW i \in [key : Keys, type : Types], Complementary(i)
    PROVE  LET p == Delivered(i, Recipient(i))
               t == TargetAfter(i)
               h == HeldAfter(i)
           IN  /\ \A k \in Keys : p[k] # "none" => k \in h /\ p[k] = t
               /\ t = app.view => \A k \in h : p[k] = t
               /\ i.type = "Press" => h # {} /\ (t # app.view => held # {} /\ t = target)
               /\ i.type = "Release" => t = target /\ (h # {} => held # {})
               /\ i.type \notin {"Press", "Release"} => t = target /\ h = held
<1>1. /\ pressedIn \in [Keys -> Views \cup {"none"}] /\ i.key \in Keys /\ held \subseteq Keys
  BY DEF NavInv, QueueTypes
<1>2. app.view \in Views /\ app.view # "none"
  <2>1. PICK a : a = app
    OBVIOUS
  <2>2. AppGood(a) /\ a \in AppType
    BY <2>1 DEF NavInv, AppGood
  <2>3. PICK s \in Scenes : s = Top(a)
    BY <2>2, TopIsScene
  <2>4. a.view = ViewOf[s] /\ a.view \in Views
    BY <2>2, <2>3, AppFields DEF AppGood
  <2>5. QED
    BY <2>1, <2>4, ViewScenes
<1>3. PICK view : view = app.view
  OBVIOUS
<1>4. PICK k0 \in Keys : k0 = i.key
  BY <1>1
<1>5. PICK v : v = Recipient(i)
  OBVIOUS
<1>6. PICK p : p = Delivered(i, v)
  OBVIOUS
<1>7. PICK t : t = TargetAfter(i)
  OBVIOUS
<1>8. PICK h : h = HeldAfter(i)
  OBVIOUS
<1>9. /\ \A k \in Keys : pressedIn[k] # "none" => k \in held /\ pressedIn[k] = target
      /\ target = view => \A k \in held : pressedIn[k] = target
  BY <1>3 DEF TargetInv
<1>10. SUFFICES
         /\ \A k \in Keys : p[k] # "none" => k \in h /\ p[k] = t
         /\ t = view => \A k \in h : p[k] = t
         /\ i.type = "Press" => h # {} /\ (t # view => held # {} /\ t = target)
         /\ i.type = "Release" => t = target /\ (h # {} => held # {})
         /\ i.type \notin {"Press", "Release"} => t = target /\ h = held
  BY <1>3, <1>5, <1>6, <1>7, <1>8
<1>11. CASE i.type = "Press"
  <2>1. h = held \cup {k0}
    BY <1>4, <1>8, <1>11 DEF HeldAfter
  <2>2. v = IF t = view THEN view ELSE "none"
    BY <1>3, <1>5, <1>7, <1>11 DEF Recipient
  <2>3. t = IF h = {k0} THEN view ELSE target
    BY <1>3, <1>4, <1>7, <1>8, <1>11 DEF TargetAfter
  <2>4. CASE t = view
    <3>1. p = [pressedIn EXCEPT ![k0] = view]
      BY <1>2, <1>3, <1>4, <1>6, <1>11, <2>2, <2>4 DEF Delivered
    <3>2. p[k0] = view /\ \A k \in Keys \ {k0} : p[k] = pressedIn[k]
      BY <1>1, <3>1
    <3>3. \A k \in held \ {k0} : t = target
      BY <2>1, <2>3
    <3>4. \A k \in Keys \ {k0} : p[k] # "none" => k \in h /\ p[k] = t
      BY <1>9, <2>1, <3>2, <3>3
    <3>5. \A k \in h \ {k0} : p[k] = t
      BY <1>1, <1>9, <2>1, <2>4, <3>2, <3>3
    <3>6. QED
      BY <1>11, <2>1, <2>4, <3>2, <3>4, <3>5
  <2>5. CASE t # view
    <3>1. p = pressedIn /\ t = target /\ h # {k0}
      BY <1>6, <2>2, <2>3, <2>5 DEF Delivered
    <3>2. held # {} /\ h # {}
      BY <2>1, <3>1
    <3>3. QED
      BY <1>9, <1>11, <2>1, <2>5, <3>1, <3>2
  <2>6. QED
    BY <2>4, <2>5
<1>12. CASE i.type = "Release"
  <2>1. h = held \ {k0} /\ t = target /\ v = target
    BY <1>4, <1>5, <1>7, <1>8, <1>12 DEF HeldAfter, TargetAfter, Recipient
  <2>2. \A k \in Keys \ {k0} : p[k] = pressedIn[k]
    BY <1>1, <1>4, <1>6, <1>12 DEF Delivered
  <2>3. p[k0] = "none"
    <3>1. CASE pressedIn[k0] = "none"
      BY <1>1, <1>4, <1>6, <1>12, <3>1 DEF Delivered
    <3>2. CASE pressedIn[k0] # "none"
      <4>1. pressedIn[k0] = target /\ v # "none"
        BY <1>9, <2>1, <3>2
      <4>2. p = [pressedIn EXCEPT ![k0] = IF pressedIn[k0] = v THEN "none" ELSE pressedIn[k0]]
        BY <1>4, <1>6, <1>12, <4>1 DEF Delivered
      <4>3. QED
        BY <1>1, <2>1, <4>1, <4>2
    <3>3. QED
      BY <3>1, <3>2
  <2>4. QED
    BY <1>1, <1>9, <1>12, <2>1, <2>2, <2>3
<1>13. CASE i.type \notin {"Press", "Release"}
  <2>1. h = held /\ t = target /\ p = pressedIn
    BY <1>6, <1>7, <1>8, <1>13 DEF HeldAfter, TargetAfter, Delivered
  <2>2. QED
    BY <1>9, <1>13, <2>1
<1>14. QED
  BY <1>11, <1>12, <1>13

(* While an event waits behind an input it is of the scene on top, if that  *)
(* scene has the keys, and then of the dashboard or the input is a Release. *)
LEMMA WaitsBehind ==
    ASSUME NavInv, AwayInv, PairInv, TakeInput, NEW e, Len(events) = 1, e = events[1]
    PROVE  /\ held # {} /\ target = app.view => e.from = Top(app)
           /\ Away => e.from # Top(app)
           /\ e.from = "Dashboard" \/ inputs[1] = OkRelease
<1>1. First(waiting, "input") /\ ~ First(waiting, "event")
  BY TakeInputKeeps DEF First
<1>2. inputs # <<>>
  <2>1. Contains(waiting, "input")
    <3>1. 1 \in 1 .. Len(waiting)
      <4>1. waiting \in Seq(Items) /\ Len(waiting) \in Nat /\ waiting # <<>>
        BY <1>1 DEF First, NavInv, QueueTypes, Once
      <4>2. QED
        BY <4>1
    <3>2. QED
      BY <1>1, <3>1 DEF First, Contains
  <2>2. QED
    BY <2>1 DEF NavInv, QueuesInv
<1>3. 1 \in 1 .. Len(events)
  OBVIOUS
<1>4. QED
  BY <1>1, <1>2, <1>3 DEF AwayInv, PairInv, Stale, ReleaseComes

(* Taking an input keeps the rule of clicks.                                *)
LEMMA TakeInputKeepsFocus ==
    ASSUME NavInv, ClickInv, FocusInv, TakeInput
    PROVE  FocusInv'
<1> USE DEF FocusInv
<1>1. /\ pc = "wait" /\ First(waiting, "input") /\ events' = events
      /\ events \in Seq(Event) /\ Len(events) \in Nat /\ Len(events) <= 1
      /\ events # <<>> => First(waiting', "event")
  BY TakeInputKeeps
<1>2. /\ inputs # <<>> /\ inputs[1] = Head(inputs)
      /\ inputs[1] \in [key : Keys, type : Types]
      /\ inputs[1] = OkShort /\ "ok" \in held => ReleaseComes'
  BY TakeInputKeepsClicks
<1>3. PICK i \in [key : Keys, type : Types] : i = inputs[1]
  BY <1>2
<1>4. PICK b : b = app'
  OBVIOUS
<1>5. PICK n \in Nat : n = Len(events)
  BY <1>1
<1>6. (n = 0 \/ n = 1) /\ \A m \in 1 .. n : m = 1 /\ n = 1
  BY <1>1, <1>5
<1>7. ASSUME n = 1
      PROVE  /\ First(waiting', "event")
             /\ held # {} /\ target = app.view => events[1].from = Top(app)
             /\ Away => events[1].from # Top(app)
             /\ events[1].from = "Dashboard" \/ i = OkRelease
  <2>1. Len(events) = 1
    BY <1>5, <1>7
  <2>2. events # <<>>
    <3>1. Len(<<>>) # 1
      OBVIOUS
    <3>2. QED
      BY <2>1, <3>1
  <2>3. QED
    BY <1>1, <1>3, <2>1, <2>2, WaitsBehind
<1>8. SUFFICES
        /\ \A k \in Keys : pressedIn'[k] # "none" => k \in held' /\ pressedIn'[k] = target'
        /\ target' = b.view => \A k \in held' : pressedIn'[k] = target'
        /\ held' # {} /\ target' # b.view
             => pc' \notin Keys /\ (n = 1 => events[1].from # Top(b))
        /\ pc' \in Keys => held' # {} /\ (Top(b) = "Dashboard" \/ ReleaseComes')
        /\ pc' \in Keys /\ n = 1 => events[1].from = "Dashboard" /\ Top(b) = "Dashboard"
        /\ pc' # "about"
  <2>1. /\ TargetInv'
        /\ pc' \in Keys => held' # {} /\ (Top(b) = "Dashboard" \/ ReleaseComes')
        /\ pc' # "about"
    BY <1>4, <1>8 DEF TargetInv
  <2>2. Away' => pc' \notin Keys /\ \A m \in 1 .. Len(events') : Stale(events[m])'
    <3>1. Away' <=> held' # {} /\ target' # b.view
      BY <1>4 DEF Away
    <3>2. \A m \in 1 .. Len(events') : m = 1 /\ n = 1
      BY <1>1, <1>5, <1>6
    <3>3. QED
      BY <1>1, <1>4, <1>8, <3>1, <3>2 DEF Stale
  <2>3. \A m \in 1 .. Len(events') : First(waiting', "event") /\ m = 1
    BY <1>1, <1>5, <1>6, <1>7
  <2>4. AwayInv'
    BY <2>1, <2>2, <2>3 DEF AwayInv
  <2>5. PairInv'
    <3>1. (pc' \in Keys /\ Len(events') = 1) \/ Len(events') = 2
            => events'[1].from = "Dashboard" /\ Top(app') = "Dashboard"
      BY <1>1, <1>4, <1>5, <1>6, <1>8
    <3>2. pc' \in Keys => Top(app') = "Dashboard" \/ ReleaseComes'
      BY <1>4, <2>1
    <3>3. QED
      BY <2>3, <3>1, <3>2 DEF PairInv
  <2>6. QED
    BY <2>1, <2>4, <2>5
<1>9. "wait" \notin Keys /\ "about" \notin Keys
  BY DEF Keys, Encoders
<1>10. CASE ~ Complementary(i)
  <2>1. b = app /\ pc' = "wait" /\ UNCHANGED <<held, target, pressedIn>>
    BY <1>1, <1>2, <1>3, <1>4, <1>10 DEF TakeInput, dispatcher
  <2>2. QED
    BY <1>7, <1>9, <2>1 DEF TargetInv, Away
<1>11. CASE Complementary(i)
  <2>1. PICK sends \in BOOLEAN : sends <=> Recipient(i) = app.view /\ Sends(app, Recipient(i), i)
    OBVIOUS
  <2>2. /\ pc' = (IF sends THEN i.key ELSE "wait") /\ Answers(i, Recipient(i), sends, b)
        /\ held' = HeldAfter(i) /\ target' = TargetAfter(i) /\ pressedIn' = Delivered(i, Recipient(i))
    BY <1>2, <1>3, <1>4, <1>11, <2>1 DEF TakeInput, Answers
  <2>3. /\ \A k \in Keys : pressedIn'[k] # "none" => k \in held' /\ pressedIn'[k] = target'
        /\ target' = app.view => \A k \in held' : pressedIn'[k] = target'
        /\ i.type = "Press" => held' # {} /\ (target' # app.view => held # {} /\ target' = target)
        /\ i.type = "Release" => target' = target /\ (held' # {} => held # {})
        /\ i.type \notin {"Press", "Release"} => target' = target /\ held' = held
    BY <1>11, <2>2, InputKeepsTarget
  <2>4. i.key \in Keys
    OBVIOUS
  <2>5. CASE ~ sends /\ Top(b) = Top(app) /\ b.view = app.view
    <3>1. held' # {} /\ target' # app.view => Away
      BY <2>3 DEF Away
    <3>2. QED
      BY <1>7, <1>9, <2>2, <2>3, <2>5, <3>1
  <2>6. CASE /\ i.type \notin {"Press", "Release"} /\ i.key \in held /\ target = app.view /\ ~ sends
             /\ Top(app) \in DOMAIN Parent /\ Top(b) = Parent[Top(app)] /\ b.view # app.view
    <3>1. n = 1 => events[1].from = Top(app)
      BY <1>7, <2>6
    <3>2. Top(b) # Top(app)
      BY <2>6, SceneNames
    <3>3. QED
      BY <1>9, <2>2, <2>3, <2>6, <3>1, <3>2
  <2>7. CASE /\ i.type \notin {"Press", "Release"} /\ i.key \in held /\ target = app.view /\ sends
             /\ Top(b) = Top(app) /\ b.view = app.view /\ i.key = "ok"
             /\ i.type = "Short" \/ Top(app) = "Dashboard"
    <3>1. i # OkRelease /\ (i.type = "Short" => i = OkShort)
      <4>1. PICK k \in Keys, type \in Types : i = [key |-> k, type |-> type]
        OBVIOUS
      <4>2. QED
        BY <2>7, <4>1 DEF OkShort, OkRelease
    <3>2. n = 1 => events[1].from = "Dashboard" /\ Top(b) = "Dashboard"
      BY <1>7, <2>7, <3>1
    <3>3. Top(b) = "Dashboard" \/ ReleaseComes'
      BY <1>2, <1>3, <2>7, <3>1
    <3>4. QED
      BY <1>9, <2>2, <2>3, <2>4, <2>7, <3>2, <3>3
  <2>8. QED
    BY <1>1, <1>11, <2>2, <2>5, <2>6, <2>7, InputLeads
<1>12. QED
  BY <1>10, <1>11

(* A view that sends has the keys; a second event is of the dashboard, as   *)
(* the first.                                                               *)
LEMMA SendKeepsFocus ==
    ASSUME NavInv, NavInv', FocusInv, Send
    PROVE  FocusInv'
<1> USE DEF FocusInv
<1>1. /\ UNCHANGED <<phase, shown, inputs, held, target, pressedIn, app>>
      /\ pc' = "wait" /\ pc \in Keys /\ pc' \notin Keys
  BY DEF Send, keys, dispatcher, Keys, Encoders
<1>2. PICK e : e.from = Top(app) /\ events' = Append(events, e)
  <2>1. PICK e : /\ e = [code |-> Number(app.view, pc), from |-> Top(app), choice |-> Choice(app, app.view)]
                 /\ events' = Append(events, e)
    BY DEF Send
  <2>2. QED
    BY <2>1
<1>3. events \in Seq(Event) /\ Len(events) <= 1 /\ Len(events) \in Nat
  BY <1>1 DEF NavInv, QueueTypes, QueuesInv
<1>4. PICK m \in {0, 1} : m = Len(events)
  BY <1>3
<1>5. PICK q : q = events'
  OBVIOUS
<1>6. Len(q) = m + 1 /\ q[m + 1] = e /\ (m = 1 => q[1] = events[1])
  BY <1>2, <1>3, <1>4, <1>5
<1>7. ~ Away /\ (Top(app) = "Dashboard" \/ ReleaseComes)
      /\ (m = 1 => events[1].from = "Dashboard" /\ Top(app) = "Dashboard")
  BY <1>1, <1>4 DEF AwayInv, PairInv
<1>8. \A n \in 1 .. Len(q) : q[n].from = Top(app)
  <2>1. ASSUME NEW n \in 1 .. Len(q) PROVE q[n].from = Top(app)
    <3>1. n = m + 1 \/ (n = 1 /\ m = 1)
      BY <1>6
    <3>2. QED
      BY <1>2, <1>6, <1>7, <3>1
  <2>2. QED
    BY <2>1
<1>9. Top(app') = Top(app) /\ (ReleaseComes' <=> ReleaseComes) /\ ~ Away'
  BY <1>1, <1>7 DEF ReleaseComes, Away
<1>10. TargetInv'
  BY <1>1 DEF TargetInv
<1>11. AwayInv'
  <2>1. \A n \in 1 .. Len(events') : ~ Stale(events[n])'
    BY <1>5, <1>8, <1>9 DEF Stale
  <2>2. QED
    BY <1>1, <1>9, <2>1 DEF AwayInv
<1>12. PairInv'
  <2>1. \A n \in 1 .. Len(events') : events'[n].from = "Dashboard" \/ ReleaseComes'
    BY <1>5, <1>7, <1>8, <1>9
  <2>2. Len(events') = 2 => events'[1].from = "Dashboard" /\ Top(app') = "Dashboard"
    BY <1>4, <1>5, <1>6, <1>7, <1>9
  <2>3. QED
    BY <1>1, <2>1, <2>2 DEF PairInv
<1>13. QED
  BY <1>10, <1>11, <1>12

(* An event that leads somewhere is of a scene that has the keys, or no key *)
(* is down; one that still waits behind it comes too late.                  *)
LEMMA TakeEventKeepsFocus ==
    ASSUME NavInv, NavInv', FocusInv, TakeEvent
    PROVE  FocusInv'
<1> USE DEF FocusInv
<1>1. /\ pc = "wait" /\ First(waiting, "event") /\ events # <<>>
      /\ events \in Seq(Event) /\ Len(events) \in {1, 2} /\ events' = Tail(events)
      /\ events[1] \in Event /\ Sound(events[1], app)
      /\ \E items \in Seq(Ids) : app' = OnCustom(app, events[1].code, items)
  BY TakesEvent
<1>2. UNCHANGED <<phase, shown, inputs, held, target, pressedIn>>
  BY DEF TakeEvent, keys, dispatcher
<1>3. PICK m \in {0, 1} : Len(events) = m + 1
  BY <1>1
<1>4. PICK q : q = events'
  OBVIOUS
<1>5. Len(q) = m /\ (m = 1 => q[1] = events[2])
  BY <1>1, <1>3, <1>4
<1>6. \A n \in 1 .. Len(q) : n = 1 /\ m = 1
  BY <1>5
<1>7. m = 1 => /\ events[1].from = "Dashboard" /\ Top(app) = "Dashboard"
               /\ events[2].from = "Dashboard"
  <2>1. m = 1 => Len(events) = 2
    BY <1>3
  <2>2. QED
    BY <2>1 DEF NavInv, EventsInv, PairInv
<1>8. PICK a : a = app
  OBVIOUS
<1>9. PICK b : b = app'
  OBVIOUS
<1>10. PICK e \in Event : e = events[1]
  BY <1>1
<1>11. AppGood(a) /\ AppGood(b) /\ (IF e.from = Top(a) THEN Opens(e, b) ELSE b = a)
  BY <1>1, <1>8, <1>9, <1>10, CustomOpens DEF NavInv
<1>12. m = 1 => Top(b) = "Menu"
  BY <1>7, <1>8, <1>10, <1>11 DEF Opens
<1>13. e.from = Top(a) => held = {} \/ target = a.view
  <2>1. 1 \in 1 .. Len(events)
    BY <1>3
  <2>2. QED
    BY <1>8, <1>10, <2>1 DEF AwayInv, Stale, Away
<1>14. (pc' = "about" <=> Top(b) = "SettingsAbout") /\ (pc' = "about" \/ pc' = "wait")
  BY <1>1, <1>9 DEF TakeEvent
<1>15. pc' \notin Keys
  BY <1>14 DEF Keys, Encoders
<1>16. Top(b) \in Scenes /\ b.view = ViewOf[Top(b)]
  BY <1>11, TopIsScene DEF AppGood
<1>17. TargetInv'
  <2>1. target = b.view => \A k \in held : pressedIn[k] = target
    BY <1>8, <1>11, <1>13 DEF TargetInv
  <2>2. QED
    BY <1>2, <1>9, <2>1 DEF TargetInv
<1>18. AwayInv'
  <2>1. \A n \in 1 .. Len(q) : q[n].from # Top(b)
    BY <1>5, <1>6, <1>7, <1>12
  <2>2. \A n \in 1 .. Len(q) : held = {} \/ target # b.view
    <3>1. m = 1 => held = {} \/ target = a.view
      BY <1>7, <1>8, <1>10, <1>13
    <3>2. m = 1 => a.view = "dashboard"
      BY <1>7, <1>8, <1>11 DEF AppGood, ViewOf
    <3>3. m = 1 => b.view # "dashboard"
      BY <1>12, <1>16, ViewScenes
    <3>4. QED
      BY <1>6, <3>1, <3>2, <3>3
  <2>3. pc' = "about" => events' = <<>>
    <3>1. pc' = "about" => m = 0
      BY <1>12, <1>14
    <3>2. m = 0 => Len(events) = 1
      BY <1>3
    <3>3. Len(events) = 1 => Tail(events) = <<>>
      BY <1>1
    <3>4. QED
      BY <1>1, <3>1, <3>2, <3>3
  <2>4. QED
    BY <1>2, <1>4, <1>9, <1>15, <2>1, <2>2, <2>3 DEF AwayInv, Stale
<1>19. PairInv'
  <2>1. \A n \in 1 .. Len(q) : q[n].from = "Dashboard"
    BY <1>5, <1>6, <1>7
  <2>2. Len(q) # 2
    BY <1>5
  <2>3. QED
    BY <1>4, <1>15, <2>1, <2>2 DEF PairInv
<1>20. QED
  BY <1>17, <1>18, <1>19

(* The inductive invariant of clicks.                                       *)
WholeInv == ListInv /\ FocusInv

(* Every step keeps it.                                                     *)
LEMMA WholeStepKeeps == WholeInv /\ [Next]_vars => WholeInv'
<1> SUFFICES ASSUME ListInv, FocusInv, [Next]_vars PROVE WholeInv'
  BY DEF WholeInv
<1>1. ListInv'
  BY ListStepKeeps
<1>2. NavInv /\ ClickInv /\ NavInv'
  BY <1>1 DEF ListInv
<1>3. SUFFICES FocusInv'
  BY <1>1 DEF WholeInv
<1>4. ASSUME UNCHANGED <<events, pc, app, held, target, pressedIn>>,
             ReleaseComes => ReleaseComes', First(waiting, "event") => First(waiting', "event")
      PROVE  FocusInv'
  <2>1. TargetInv'
    BY <1>4 DEF FocusInv, TargetInv
  <2>2. AwayInv'
    BY <1>4 DEF FocusInv, AwayInv, Away, Stale
  <2>3. PairInv'
    BY <1>4 DEF FocusInv, PairInv
  <2>4. QED
    BY <2>1, <2>2, <2>3 DEF FocusInv
<1>5. ASSUME NEW k \in Keys, NEW type \in Types, Put(k, type) PROVE FocusInv'
  <2>1. UNCHANGED <<events, pc, app, held, target, pressedIn>> /\ (ReleaseComes => ReleaseComes')
    BY <1>2, <1>5, PutKeepsClicks DEF Put, dispatcher
  <2>2. First(waiting, "event") => First(waiting', "event")
    <3>1. PICK r : r = waiting'
      OBVIOUS
    <3>2. PICK q : q = inputs'
      OBVIOUS
    <3>3. r = Linked(waiting, "input", q) /\ "input" \in Items
      BY <1>5, <3>1, <3>2 DEF Put, Items
    <3>4. waiting # <<>> => r # <<>> /\ r[1] = waiting[1]
      BY <1>2, <3>3, LinkedOnce DEF NavInv, QueueTypes
    <3>5. QED
      BY <3>1, <3>4 DEF First
  <2>3. QED
    BY <1>4, <2>1, <2>2
<1>6. ASSUME NEW k \in Keys, NEW type \in Types, Withhold(k, type) PROVE FocusInv'
  <2>1. /\ UNCHANGED <<events, pc, app, held, target, pressedIn, waiting>>
        /\ ReleaseComes => ReleaseComes'
    BY <1>2, <1>6, WithholdKeepsClicks DEF Withhold, dispatcher
  <2>2. QED
    BY <1>4, <2>1
<1>7. CASE AboutReturn
  <2>1. UNCHANGED <<events, held, target, pressedIn>> /\ pc = "about" /\ pc' = "wait"
    BY <1>7 DEF AboutReturn, dispatcher
  <2>2. app'.view = app.view
    <3>1. Top(app) = "SettingsAbout" /\ Top(app') = "Settings"
      BY <1>2, <1>7, AboutReturnKeeps
    <3>2. app.view = ViewOf[Top(app)] /\ app'.view = ViewOf[Top(app')]
      BY <1>2 DEF NavInv, AppGood
    <3>3. QED
      BY <3>1, <3>2, SceneNames
  <2>3. events' = <<>> /\ Len(events') = 0 /\ pc' \notin Keys
    BY <2>1 DEF FocusInv, AwayInv, Keys, Encoders
  <2>4. TargetInv'
    BY <2>1, <2>2 DEF FocusInv, TargetInv
  <2>5. AwayInv' /\ PairInv'
    BY <2>1, <2>3 DEF AwayInv, PairInv
  <2>6. QED
    BY <2>4, <2>5 DEF FocusInv
<1>8. CASE Tick
  <2>1. UNCHANGED <<events, held, target, pressedIn>> /\ pc = "wait" /\ pc' = pc /\ waiting = <<>>
    BY <1>8 DEF Tick, dispatcher
  <2>2. app'.view = app.view
    <3>1. Top(app') = Top(app)
      BY <1>2, <1>8, TickKeeps
    <3>2. app.view = ViewOf[Top(app)] /\ app'.view = ViewOf[Top(app')]
      BY <1>2 DEF NavInv, AppGood
    <3>3. QED
      BY <3>1, <3>2
  <2>3. events' = <<>> /\ Len(events') = 0 /\ pc' \notin Keys
    <3>1. ~ Contains(waiting, "event")
      BY <2>1 DEF Contains
    <3>2. QED
      BY <1>2, <2>1, <3>1 DEF NavInv, QueuesInv, Keys, Encoders
  <2>4. TargetInv'
    BY <2>1, <2>2 DEF FocusInv, TargetInv
  <2>5. AwayInv' /\ PairInv'
    BY <2>1, <2>3 DEF AwayInv, PairInv
  <2>6. QED
    BY <2>4, <2>5 DEF FocusInv
<1>9. CASE UNCHANGED vars
  <2>1. UNCHANGED <<phase, shown, inputs, events, waiting, pc, app, held, target, pressedIn>>
    BY <1>9 DEF vars, keys, dispatcher
  <2>2. ReleaseComes => ReleaseComes'
    BY <2>1 DEF ReleaseComes
  <2>3. QED
    BY <1>4, <2>1, <2>2
<1>10. QED
  BY <1>2, <1>5, <1>6, <1>7, <1>8, <1>9, TakeInputKeepsFocus, SendKeepsFocus, TakeEventKeepsFocus
  DEF Next

(* A view gets the middle and the end of a click only of a Press that it    *)
(* got, and of every Press that it got the Release, whatever is shown then. *)
THEOREM ClicksAreWhole == Spec => ClickWhole
<1> DEFINE Owed == \A k \in Keys : pressedIn[k] # "none" => k \in held
           Finished == inputs # <<>> /\ inputs' = Tail(inputs) /\ Acts(Head(inputs))
                         => pressedIn[Head(inputs).key] = Recipient(Head(inputs))
<1>1. Init => WholeInv
  <2>1. SUFFICES ASSUME Init PROVE WholeInv
    OBVIOUS
  <2>2. ListInv
    BY <2>1, InitKeepsList
  <2>3. /\ events = <<>> /\ Len(events) = 0 /\ held = {} /\ pc = "wait" /\ pc \notin Keys
        /\ \A k \in Keys : pressedIn[k] = "none"
    BY <2>1 DEF Init, Keys, Encoders
  <2>4. TargetInv
    BY <2>3 DEF TargetInv
  <2>5. AwayInv /\ PairInv
    BY <2>3 DEF AwayInv, PairInv, Away
  <2>6. QED
    BY <2>2, <2>4, <2>5 DEF WholeInv, FocusInv
<1>2. WholeInv /\ [Next]_vars => WholeInv'
  BY WholeStepKeeps
<1>3. WholeInv => Owed
  BY DEF WholeInv, FocusInv, TargetInv
<1>4. WholeInv /\ [Next]_vars => [Finished]_vars
  <2>1. SUFFICES ASSUME WholeInv, inputs # <<>>, Acts(Head(inputs))
                 PROVE  pressedIn[Head(inputs).key] = Recipient(Head(inputs))
    OBVIOUS
  <2>2. PICK i : i = Head(inputs)
    OBVIOUS
  <2>3. i.key \in held /\ Recipient(i) = target /\ target = app.view
    <3>1. i.type \notin {"Press", "Release"} /\ Complementary(i) /\ Recipient(i) # "none"
      BY <2>1, <2>2 DEF Acts
    <3>2. TargetAfter(i) = target
      BY <3>1 DEF TargetAfter
    <3>3. QED
      BY <3>1, <3>2 DEF Complementary, Recipient
  <2>4. QED
    BY <2>1, <2>2, <2>3 DEF WholeInv, FocusInv, TargetInv
<1>5. QED
  BY <1>1, <1>2, <1>3, <1>4, PTL DEF Spec, ClickWhole
=============================================================================
