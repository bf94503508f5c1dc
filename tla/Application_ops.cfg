\* A tray item and a page request, a quit of the tray and one of another
\* process, a relaunch asked for in the tray and on the page
CONSTANTS
  Clicks = {click1}
  Requests = {request1}
  Quits = {quitTray, quitOther}
  TrayQuit = quitTray
  Relaunches = {relaunchTray, relaunchPage}
  MaxToggles = 3
  Nobody = nobody
  NoProcess = noprocess
  none = none
  Apps = {i, j, p}
  Installed = {i, j}
  Quitters = {q}
  Uninstallers = {u}
  MaxStarts = 2
  Workers = {worker}
  Threshold = 2
  MaxChanges = 3
SPECIFICATION AllFairSpec
INVARIANTS NothingCutShort QuitMeansGone
PROPERTIES LastClickWins QuitEnds QuitCallEnds DisplaySettles
CHECK_DEADLOCK FALSE
