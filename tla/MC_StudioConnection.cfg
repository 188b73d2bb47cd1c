SPECIFICATION Spec
CONSTANTS
  MaxLinks = 2
  Kinds = {"elm", "can", "virtual", "simulated"}
  Agents = TRUE
  MaxCallbacks = 2
CHECK_DEADLOCK FALSE
INVARIANT LinksAccounted
PROPERTY WhatBeginsEnds
