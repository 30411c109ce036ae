# A verification project for Paracooba

Draft of the documentation: parts, modules, runs, bounds. Draft of the documentation: parts, modules, runs, bounds. Draft of the documentation: parts, modules, runs, bounds. Draft of the documentation: parts, modules, runs, bounds. Draft of the documentation: parts, modules, runs, bounds. Draft of the documentation: parts, modules, runs, bounds. Draft of the documentation: parts, modules, runs, bounds. Draft of the documentation: parts, modules, runs, bounds. Draft of the documentation: parts, modules, runs, bounds. Draft of the documentation: parts, modules, runs, bounds. Draft of the documentation: parts, modules, runs, bounds. Draft of the documentation: parts, modules, runs, bounds. Draft of the documentation: parts, modules, runs, bounds. Draft of the documentation: parts, modules, runs, bounds. Draft of the documentation: parts, modules, runs, bounds. Draft of the documentation: parts, modules, runs, bounds. Draft of the documentation: parts, modules, runs, bounds. Draft of the documentation: parts, modules, runs, bounds. Draft of the documentation: parts, modules, runs, bounds. Draft of the documentation: parts, modules, runs, bounds. Draft of the documentation: parts, modules, runs, bounds. Draft of the documentation: parts, modules, runs, bounds. Draft of the documentation: parts, modules, runs, bounds. Draft of the documentation: parts, modules, runs, bounds. Draft of the documentation: parts, modules, runs, bounds. Draft of the documentation: parts, modules, runs, bounds. Draft of the documentation: parts, modules, runs, bounds. Draft of the documentation: parts, modules, runs, bounds. Draft of the documentation: parts, modules, runs, bounds. Draft of the documentation: parts, modules, runs, bounds. Draft of the documentation: parts, modules, runs, bounds. Draft of the documentation: parts, modules, runs, bounds. Draft of the documentation: parts, modules, runs, bounds. Draft of the documentation: parts, modules, runs, bounds. Draft of the documentation: parts, modules, runs, bounds. Draft of the documentation: parts, modules, runs, bounds. Draft of the documentation: parts, modules, runs, bounds. Draft of the documentation: parts, modules, runs, bounds. Draft of the documentation: parts, modules, runs, bounds. Draft of the documentation: parts, modules, runs, bounds. Draft of the documentation: parts, modules, runs, bounds. Draft of the documentation: parts, modules, runs, bounds. Draft of the documentation: parts, modules, runs, bounds. Draft of the documentation: parts, modules, runs, bounds. Draft of the documentation: parts, modules, runs, bounds. Draft of the documentation: parts, modules, runs, bounds. Draft of the documentation: parts, modules, runs, bounds. Draft of the documentation: parts, modules, runs, bounds. Draft of the documentation: parts, modules, runs, bounds. Draft of the documentation: parts, modules, runs, bounds. Draft of the documentation: parts, modules, runs, bounds. Draft of the documentation: parts, modules, runs, bounds. Draft of the documentation: parts, modules, runs, bounds. Draft of the documentation: parts, modules, runs, bounds. Draft of the documentation: parts, modules, runs, bounds. Draft of the documentation: parts, modules, runs, bounds. Draft of the documentation: parts, modules, runs, bounds. Draft of the documentation: parts, modules, runs, bounds. Draft of the documentation: parts, modules, runs, bounds. Draft of the documentation: parts, modules, runs, bounds. 
