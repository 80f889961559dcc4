-------------------------------- MODULE Desktop --------------------------------
(***************************************************************************)
(* The desktop app: the Electron main process (main.js), the bridge to the *)
(* page (preload.js), and the parts of the web page that use the bridge:   *)
(* the mention socket of layout.tsx and the bell of ChannelSidebar.tsx.    *)
(*                                                                         *)
(* Main and page talk over IPC, a queue each way.  What is queued for the  *)
(* page is lost when the page is loaded anew, what is queued for main when *)
(* the app ends.  Icons, menus and the texts of notifications are left out.*)
(***************************************************************************)
EXTENDS OrderedLists

CONSTANTS
  Channel,
  MaxIpc    \* bound: messages queued in each direction

ASSUME DesktopAssumption == MaxIpc \in Nat \ {0}

VARIABLES
  app,         \* "off", "starting" or "running"
  isQuitting,
  closing,     \* app.quit() is closing the window
  mainWindow,  \* what is on the desktop: "none", "hidden", "away" or "focused"
  tray,        \* "none", "due" (setTimeout) or "shown"
  notes,       \* channels with a notification on the screen
  store,       \* notificationsEnabled on disk
  toMain, toPage,
  page,        \* "none", "loading", "app" or "signedout"
  token,       \* is there an access token in localStorage?
  sock,        \* layout's WebSocket: "none", "open" or "waiting"
  bell,        \* notificationsEnabled as the page shows it
  wants,       \* history: what the user last asked of notifications
  early        \* history: the bell was used before the stored value had arrived

mainVars == <<app, isQuitting, closing, tray, store>>
pageVars == <<page, token, sock, bell, early>>
desktopVars == <<mainVars, mainWindow, notes, toMain, toPage, pageVars, wants>>

(* Before the first launch.                                                *)
DesktopInit ==
  /\ app = "off" /\ isQuitting = FALSE /\ closing = FALSE
  /\ mainWindow = "none" /\ tray = "none" /\ notes = {}
  /\ store \in BOOLEAN /\ wants = store
  /\ toMain = <<>> /\ toPage = <<>>
  /\ page = "none" /\ token \in BOOLEAN /\ sock = "none" /\ bell = TRUE
  /\ early = FALSE

-----------------------------------------------------------------------------
(* The page is loaded anew: what it heard and held is gone, and the answer *)
(* to what it asked finds nobody.  The window shows the static export,     *)
(* whose only channel page is the one with the id 'default': whatever      *)
(* channel it is sent to, it comes up at the root.                         *)
Load ==
  /\ page' = "loading" /\ sock' = "none" /\ toPage' = <<>>
  /\ toMain' = Without(toMain, {[type |-> "get"]})

(* A launch takes the lock ...                                             *)
Launch ==
  /\ app = "off" /\ app' = "starting"
  /\ UNCHANGED <<isQuitting, closing, tray, store, mainWindow, notes, toMain, toPage, pageVars, wants>>

(* ... or wakes the instance that holds it.                                *)
SecondInstance ==
  /\ app = "running" /\ mainWindow' = "focused"
  /\ UNCHANGED <<mainVars, notes, toMain, toPage, pageVars, wants>>

(* whenReady: the store is imported, then the window made and the tray due.*)
Ready ==
  /\ app = "starting" /\ app' = "running"
  /\ mainWindow' = "focused" /\ tray' = "due"
  /\ Load
  /\ UNCHANGED <<isQuitting, closing, store, notes, token, bell, early, wants>>

createTray ==
  /\ tray = "due" /\ tray' = "shown"
  /\ UNCHANGED <<app, isQuitting, closing, store, mainWindow, notes, toMain, toPage, pageVars, wants>>

(* The user minimizes, leaves and enters the window: "away" is on the      *)
(* screen or in the task bar without the focus.                            *)
WindowTo(w) ==
  /\ mainWindow \in {"away", "focused"} /\ mainWindow' = w
  /\ UNCHANGED <<mainVars, notes, toMain, toPage, pageVars, wants>>

(* The tray's Open and double click; a click on the dock does the same.    *)
ShowWindow ==
  /\ app = "running" /\ tray = "shown" /\ mainWindow' = "focused"
  /\ UNCHANGED <<mainVars, notes, toMain, toPage, pageVars, wants>>

(* isVisible is true of a minimized window on some platforms only.         *)
TrayClick ==
  /\ app = "running" /\ tray = "shown"
  /\ \/ mainWindow \in {"away", "focused"} /\ mainWindow' = "hidden"
     \/ mainWindow \in {"away", "hidden"} /\ mainWindow' = "focused"
  /\ UNCHANGED <<mainVars, notes, toMain, toPage, pageVars, wants>>

(* The user closes the window, or app.quit() does.  The handler of 'close' *)
(* hides it instead, and so cancels a quit, unless isQuitting is set.      *)
Close ==
  /\ mainWindow # "none" /\ (closing \/ mainWindow # "hidden")
  /\ IF isQuitting
       THEN /\ app' = "off" /\ mainWindow' = "none" /\ tray' = "none" /\ notes' = {}
            /\ toMain' = <<>> /\ toPage' = <<>> /\ page' = "none" /\ sock' = "none"
            /\ wants' = store
       ELSE /\ mainWindow' = "hidden"
            /\ UNCHANGED <<app, tray, notes, toMain, toPage, page, sock, wants>>
  /\ isQuitting' = FALSE /\ closing' = FALSE
  /\ UNCHANGED <<store, token, bell, early>>

(* Quit, from a menu or by the system: before-quit, then the window is     *)
(* asked to close.                                                         *)
Quit ==
  /\ app = "running" /\ ~closing /\ closing' = TRUE
  /\ isQuitting' = TRUE
  /\ UNCHANGED <<app, tray, store, mainWindow, notes, toMain, toPage, pageVars, wants>>

-----------------------------------------------------------------------------
(* The page: mounted with a token it opens its socket, listens for         *)
(* navigations and asks for the preference.                                *)
PageLoaded ==
  /\ page = "loading" /\ Len(toMain) < MaxIpc
  /\ page' = IF token THEN "app" ELSE "signedout"
  /\ sock' = IF token THEN "open" ELSE "none"
  /\ toMain' = IF token THEN Append(toMain, [type |-> "get"]) ELSE toMain
  /\ bell' = TRUE /\ early' = FALSE
  /\ UNCHANGED <<mainVars, mainWindow, notes, toPage, token, wants>>

(* Signing in and out load another page (loginAction, logoutAction).       *)
SignInOut ==
  /\ page \in {"app", "signedout"}
  /\ token' = (page = "signedout")
  /\ Load
  /\ UNCHANGED <<mainVars, mainWindow, notes, bell, early, wants>>

(* View, Reload.                                                           *)
Reload ==
  /\ page \in {"app", "signedout"} /\ mainWindow = "focused"
  /\ Load
  /\ UNCHANGED <<mainVars, mainWindow, notes, token, bell, early, wants>>

SocketClosed ==
  /\ sock = "open" /\ sock' = "waiting"
  /\ UNCHANGED <<mainVars, mainWindow, notes, toMain, toPage, page, token, bell, early, wants>>

(* The five seconds are over.                                              *)
connectWs ==
  /\ sock = "waiting" /\ sock' = "open"
  /\ UNCHANGED <<mainVars, mainWindow, notes, toMain, toPage, page, token, bell, early, wants>>

(* A mention frame arrives on the socket.                                  *)
Mention(c) ==
  /\ sock = "open" /\ Len(toMain) < MaxIpc
  /\ toMain' = Append(toMain, [type |-> "show", ch |-> c, wanted |-> wants])
  /\ UNCHANGED <<mainVars, mainWindow, notes, toPage, pageVars, wants>>

toggleNotifications ==
  /\ page = "app" /\ Len(toMain) < MaxIpc
  /\ bell' = ~bell /\ wants' = ~bell
  /\ toMain' = Append(toMain, [type |-> "set", enabled |-> ~bell])
  /\ early' = (early \/ (\E i \in DOMAIN toMain : toMain[i].type = "get")
                     \/ (\E i \in DOMAIN toPage : toPage[i].type = "pref"))
  /\ UNCHANGED <<mainVars, mainWindow, notes, toPage, page, token, sock>>

(* Mutant: the stored value is not taken over.                             *)
PageHearsIgnoresPref ==
  /\ page = "app" /\ toPage # <<>>
  /\ LET m == Head(toPage)
     IN \/ m.type = "pref" /\ toPage' = Tail(toPage) /\ UNCHANGED <<toMain, pageVars>>
        \/ m.type = "navigate" /\ Load /\ UNCHANGED <<token, bell, early>>
  /\ UNCHANGED <<mainVars, mainWindow, notes, wants>>

(* The answer to get-notification-preference, or navigate-to-channel.      *)
PageHears ==
  /\ page = "app" /\ toPage # <<>>
  /\ LET m == Head(toPage)
     IN \/ m.type = "pref" /\ bell' = m.enabled /\ toPage' = Tail(toPage)
           /\ UNCHANGED <<toMain, page, token, sock, early>>
        \/ m.type = "navigate" /\ Load /\ UNCHANGED <<token, bell, early>>
  /\ UNCHANGED <<mainVars, mainWindow, notes, wants>>

-----------------------------------------------------------------------------
GetPreference ==
  /\ toMain # <<>> /\ Head(toMain).type = "get" /\ Len(toPage) < MaxIpc
  /\ toPage' = IF page = "app" THEN Append(toPage, [type |-> "pref", enabled |-> store]) ELSE toPage
  /\ toMain' = Tail(toMain)
  /\ UNCHANGED <<mainVars, mainWindow, notes, pageVars, wants>>

SetPreference ==
  /\ toMain # <<>> /\ Head(toMain).type = "set"
  /\ store' = Head(toMain).enabled
  /\ toMain' = Tail(toMain)
  /\ UNCHANGED <<app, isQuitting, closing, tray, mainWindow, notes, toPage, pageVars, wants>>

(* Mutant: the page is trusted to have looked at the preference.           *)
ShowNotificationAlways ==
  /\ toMain # <<>> /\ Head(toMain).type = "show"
  /\ notes' = IF mainWindow # "focused" THEN notes \cup {Head(toMain).ch} ELSE notes
  /\ toMain' = Tail(toMain)
  /\ UNCHANGED <<mainVars, mainWindow, toPage, pageVars, wants>>

ShowNotification ==
  /\ toMain # <<>> /\ Head(toMain).type = "show"
  /\ notes' = IF store /\ mainWindow # "focused" THEN notes \cup {Head(toMain).ch} ELSE notes
  /\ toMain' = Tail(toMain)
  /\ UNCHANGED <<mainVars, mainWindow, toPage, pageVars, wants>>

(* A notification is clicked; a page that is not mounted hears nothing.    *)
ClickNote(c) ==
  /\ c \in notes /\ notes' = notes \ {c} /\ Len(toPage) < MaxIpc
  /\ mainWindow' = "focused"
  /\ toPage' = IF page = "app" THEN Append(toPage, [type |-> "navigate", ch |-> c]) ELSE toPage
  /\ UNCHANGED <<mainVars, toMain, pageVars, wants>>

-----------------------------------------------------------------------------
DesktopNext ==
  \/ Launch \/ SecondInstance \/ Ready \/ createTray \/ ShowWindow \/ TrayClick \/ Close \/ Quit
  \/ \E w \in {"away", "focused"} : WindowTo(w)
  \/ PageLoaded \/ SignInOut \/ Reload \/ SocketClosed \/ connectWs \/ toggleNotifications \/ PageHears
  \/ GetPreference \/ SetPreference \/ ShowNotification
  \/ \E c \in Channel : Mention(c) \/ ClickNote(c)

DesktopSpec == DesktopInit /\ [][DesktopNext]_desktopVars

-----------------------------------------------------------------------------
(* A mention that arrives after the user switched notifications off is     *)
(* never shown, although the preference travels to the main process as     *)
(* the mention does and the page itself does not look at it (tasks.md T-72,*)
(* "Notifications can be disabled via an in-app toggle").                  *)
MutedStaysMuted == [][\A c \in notes' \ notes : Head(toMain).wanted]_desktopVars

(* Once nothing is queued, the bell shows what main will do, unless it was *)
(* used before the stored value had arrived: that answer overwrites it.    *)
BellTellsTheTruth ==
  (page = "app" /\ toMain = <<>> /\ toPage = <<>> /\ ~early) => bell = store
=============================================================================
