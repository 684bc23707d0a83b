SPECIFICATION Spec
CONSTANTS
  Texts <- MCTexts
  Phrases <- MCPhrases
  Bounded <- MCBounded
  Inside <- MCInside
  Spaced <- MCSpaced
  Blank = ""
  VideoIds <- MCVideoIds
  EventTypes <- MCEventTypes
  YearWords <- MCYearWords
  CrawlerToken <- MCCrawler
  Unescaped <- MCUnescaped
  NoPage = NoPage
  NoSelectors = NoSelectors
  NoRel = NoRel
  MaxStubs = 2
  Sources <- MCAnchoredSources
CHECK_DEADLOCK FALSE
INVARIANT RobotsAnchored
