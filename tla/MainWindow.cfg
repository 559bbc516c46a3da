CONSTANTS
  g1 = g1
  g2 = g2
  NoBoot = NoBoot
  Games <- MCGames
  NoGame <- NoBoot
  MaxActions <- MCMaxActions
SPECIFICATION Spec
CHECK_DEADLOCK FALSE
PROPERTY RenderWidgetHiddenAfterStop
