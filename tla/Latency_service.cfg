\* Two servers, one tray goroutine and one page; configs of three outbounds and
\* two DNS servers. CHECK_DEADLOCK FALSE: a check of the plan ends
CONSTANTS
  Tray = {tray}
  Pages = {page}
  Tags = {1, 2}
  Eligible = {1, 2}
  Delays = {1, 2, 4}
  KeepMargin <- MCKeepMargin
  Interval = 2
  Reuse = 1
  Routings <- MCRoutings
  Nobody = nobody
  None = none
  AnyOut = any
  Retries = 1
  Configs <- MCConfigs
  a = a
  p = p
  g = g
  s = s
  t = t
SPECIFICATION AllSpec
INVARIANTS PlanStarts MeasuredAsTheVPNDials HealthyAreMeasured
PROPERTIES InstancesApart SwitchIsSound QuitCallsOff
CHECK_DEADLOCK FALSE
